---------------------------- MODULE Spec2Model ----------------------------
(***************************************************************************)
(* Binary matrix codecs of balsa (balsa/routines/io.py and the io package  *)
(* balsa/routines/io/inro.py, common.py): EMX, FORTRAN and MDF.            *)
(*                                                                         *)
(* A file is a sequence of 32-bit words.  A word is the pair <<hi, lo>> of *)
(* its two 16-bit halves, so that 0xC4D4F1B2 and negative int32 values are *)
(* representable.  A float32 array is the sequence of its bit patterns:    *)
(* np.fromfile(dtype=float32) and ndarray.tofile copy words unchanged, and *)
(* every conversion (astype, frombuffer, np.array(dtype=...)) is modelled  *)
(* by what it does to the bits.                                            *)
(***************************************************************************)
EXTENDS Integers, Sequences, FiniteSets, TLC

VARIABLES disk, stream, wcall, rcall, tree

vars == <<disk, stream, wcall, rcall, tree>>

\* Largest matrix dimension of the caller's input matrices.
MaxN == 2

\* Most rows, and so the largest tag, of a crafted FORTRAN stream.
MaxRows == 3
\* Most words of a crafted FORTRAN stream without tags.
MaxWords == 13

\* Number of matrix names of an OMX container.
MaxNames == 3

Min(a, b) == IF a < b THEN a ELSE b
Max(a, b) == IF a > b THEN a ELSE b

(***************************************************************************)
(* Words and numbers                                                       *)
(***************************************************************************)
\* The uint32 word holding n, 0 <= n < 2^31.
U32(n) == <<n \div 65536, n % 65536>>

\* np.array(x, dtype=np.int32): the two's complement word of the integer i.
I32(i) ==
    IF i >= 0 THEN U32(i)
    ELSE <<65535 - ((-i - 1) \div 65536), 65535 - ((-i - 1) % 65536)>>

\* The int32 value of a word (np.frombuffer(..., dtype=np.int32)).
AsI32(w) ==
    IF w[1] < 32768 THEN w[1] * 65536 + w[2]
    ELSE -((65535 - w[1]) * 65536 + (65535 - w[2])) - 1

\* float32 0.0 and 1.0 as bit patterns.
Zero32 == <<0, 0>>
One32 == <<16256, 0>>

\* A numeric cell of a caller's matrix (float64 in general): the float32 with
\* bit pattern w when half is FALSE, and the float64 value midway between w
\* and the next float32 when half is TRUE (not representable in float32).
Num(w, half) == [w |-> w, half |-> half]
ZeroVal == Num(Zero32, FALSE)
NonZeroVals == {Num(One32, FALSE), Num(One32, TRUE)}
Values == {ZeroVal} \cup NonZeroVals

IsFloat32(v) == ~v.half

\* ndarray.astype(np.float32) of one cell: round to nearest, ties to even.
AsFloat32(v) ==
    IF ~v.half THEN v.w
    ELSE IF v.w[2] % 2 = 0 THEN v.w ELSE <<v.w[1], v.w[2] + 1>>

\* The float32 held in a result array, as a numeric value.
ValOf(w) == Num(w, FALSE)

\* int(x ** 0.5)
Isqrt(x) == CHOOSE k \in 0..x : k * k <= x /\ (k + 1) * (k + 1) > x

\* len(a[:k]) for a of length len: Python slice semantics.
SliceLen(len, k) == IF k >= 0 THEN Min(k, len) ELSE Max(len + k, 0)

\* The rr x cc top-left block of a row-major array whose rows are `stride`
\* items apart, starting `off` items into each row, flattened row-major.
SubFlat(d, stride, off, rr, cc) ==
    [x \in 1..(rr * cc) |-> d[((x - 1) \div cc) * stride + off + ((x - 1) % cc) + 1]]

\* Whether `arr.shape = n` succeeds on an rr x cc view whose rows are `stride`
\* items apart: numpy reshapes in place only when no copy is needed.
CanFlatten(rr, cc, stride) == rr * cc = 0 \/ rr = 1 \/ cc = 1 \/ cc = stride

(***************************************************************************)
(* Matrices given by the caller and results returned to it                 *)
(***************************************************************************)

\* The flat cell sequences of length n with at most one non-zero cell.
CellSeqs(n) ==
    {[x \in 1..n |-> ZeroVal]}
    \cup {[x \in 1..n |-> IF x = p THEN v ELSE ZeroVal] : p \in 1..n, v \in NonZeroVals}

RawMatrix(r, c, d) ==
    [kind |-> "RAW", r |-> r, c |-> c, d |-> d, index |-> <<>>, columns |-> <<>>]
Frame(index, columns, d) ==
    [kind |-> "FRAME", r |-> Len(index), c |-> Len(columns), d |-> d,
     index |-> index, columns |-> columns]

\* Unlabelled 2D arrays (np.ndarray) of every shape up to MaxN x MaxN.
RawMatrices ==
    UNION {{RawMatrix(r, c, d) : d \in CellSeqs(r * c)} : r \in 0..MaxN, c \in 0..MaxN}

\* Label sequences of length n: ascending 1..n, descending n..1, and the
\* negative label -1 repeated.
Ascending(n) == [x \in 1..n |-> x]
Descending(n) == [x \in 1..n |-> n + 1 - x]
Repeated(n) == [x \in 1..n |-> -1]

\* Wide DataFrames: index and columns equal (ascending, descending or with a
\* repeated label), in opposite orders, or of different lengths.
FrameAxes ==
    UNION {{<<Ascending(n), Ascending(n)>>, <<Descending(n), Descending(n)>>,
            <<Repeated(n), Repeated(n)>>, <<Descending(n), Ascending(n)>>,
            <<Ascending(n), Ascending(Max(n - 1, 0))>>} : n \in 0..MaxN}
Frames ==
    UNION {{Frame(a[1], a[2], d) : d \in CellSeqs(Len(a[1]) * Len(a[2]))} : a \in FrameAxes}

Matrices == RawMatrices \cup Frames

IsSquareInput(m) ==
    /\ m.r = m.c
    /\ m.kind = "FRAME" => m.index = m.columns
IsFloat32Matrix(m) == \A x \in 1..Len(m.d) : IsFloat32(m.d[x])

\* What a codec call returns or raises.  kind is "ndarray" (2D), "ndarray1"
\* (1D), "DataFrame", "Series" (index: the labels, or the label pairs of a
\* stacked frame), "list" (peek_mdf: c label arrays, index and columns),
\* "none" (a write), or "error" with err naming the failure.  dtype is the MDF
\* code of the element type (1: float32); d holds the elements, a word each
\* (a pair of words for float64).
Result(kind, r, c, d, index, columns) ==
    [err |-> "", kind |-> kind, dtype |-> 1, r |-> r, c |-> c, d |-> d,
     index |-> index, columns |-> columns]
Raise(e) ==
    [err |-> e, kind |-> "error", dtype |-> 1, r |-> 0, c |-> 0, d |-> <<>>,
     index |-> <<>>, columns |-> <<>>]
Array1(d) == Result("ndarray1", Len(d), 1, d, <<>>, <<>>)
Array2(r, c, d) == Result("ndarray", r, c, d, <<>>, <<>>)
DataFrame(index, columns, d) ==
    Result("DataFrame", Len(index), Len(columns), d, index, columns)
\* DataFrame.stack(): the cells row-major under the (row, column) label pairs.
Stack(index, columns, d) ==
    Result("Series", Len(d), 1, d,
           [x \in 1..(Len(index) * Len(columns)) |->
               <<index[((x - 1) \div Len(columns)) + 1],
                 columns[((x - 1) % Len(columns)) + 1]>>],
           <<>>)
Done == Result("none", 0, 0, <<>>, <<>>, <<>>)

\* The float32 NaN that pandas fills with when fill_value is None.
NaN32 == <<32704, 0>>

\* A tall Series: index holds the (row, column) label pairs of its entries.
Series(index, d) ==
    [kind |-> "SERIES", r |-> Len(d), c |-> 1, d |-> d, index |-> index, columns |-> <<>>]

HasDuplicates(labels) ==
    \E i, j \in 1..Len(labels) : i # j /\ labels[i] = labels[j]

\* The labels of a set in ascending order.
SortedLabels(S) ==
    CHOOSE l \in [1..Cardinality(S) -> S] :
        \A i, j \in 1..Cardinality(S) : i < j => l[i] < l[j]
\* The labels of a level of a MultiIndex as a set, and sorted without
\* repeats, as unstack() makes them the axis of the frame.
LevelSet(index, k) == {index[i][k] : i \in 1..Len(index)}
Level(index, k) == SortedLabels(LevelSet(index, k))
\* index.get_level_values(k).unique(): the labels in the order they first appear.
Unique(index, k) ==
    LET first == {i \in 1..Len(index) : \A j \in 1..(i - 1) : index[j][k] # index[i][k]}
    IN  [x \in 1..Cardinality(first) |->
            index[CHOOSE i \in first : Cardinality({j \in first : j <= i}) = x][k]]

\* coerce_matrix of a Series: unstack(), then both axes reindexed to the
\* union of the row and column labels with fill_value 0.0; a pair the Series
\* lacks inside the unstacked frame stays NaN.
Squared(series) ==
    LET union == SortedLabels(LevelSet(series.index, 1) \cup LevelSet(series.index, 2))
        n == Len(union)
    IN  [r |-> n, c |-> n,
         d |-> [x \in 1..(n * n) |->
                   LET pair == <<union[((x - 1) \div n) + 1], union[((x - 1) % n) + 1]>>
                   IN  IF \E i \in 1..Len(series.index) : series.index[i] = pair
                       THEN AsFloat32(series.d[CHOOSE i \in 1..Len(series.index) :
                                                  series.index[i] = pair])
                       ELSE IF /\ pair[1] \in LevelSet(series.index, 1)
                               /\ pair[2] \in LevelSet(series.index, 2)
                       THEN NaN32 ELSE Zero32]]

(***************************************************************************)
(* common.py                                                               *)
(***************************************************************************)
\* coerce_matrix: the float32 2D buffer of the input, or the failure.
\*   ShapeMismatch  assert matrix.index.equals(matrix.columns)
\*   RawNotAllowed  raise NotImplementedError()
\*   NotSquare      assert i == j
\*   ValueError     matrix.unstack() of a Series with a repeated pair
coerce_matrix(m, allow_raw, force_square) ==
    IF m.kind = "FRAME"
    THEN IF force_square /\ m.index # m.columns THEN Raise("ShapeMismatch")
         ELSE Array2(m.r, m.c, [x \in 1..Len(m.d) |-> AsFloat32(m.d[x])])
    ELSE IF m.kind = "SERIES"
    THEN IF HasDuplicates(m.index) THEN Raise("ValueError")
         ELSE Array2(Squared(m).r, Squared(m).c, Squared(m).d)
    ELSE IF ~allow_raw THEN Raise("RawNotAllowed")
    ELSE IF m.r # m.c THEN Raise("NotSquare")
    ELSE Array2(m.r, m.c, [x \in 1..Len(m.d) |-> AsFloat32(m.d[x])])

(***************************************************************************)
(* Files and streams                                                       *)
(***************************************************************************)
\* The file at the target path.
NoFile == [exists |-> FALSE, words |-> <<>>]
File(ws) == [exists |-> TRUE, words |-> ws]

\* The stream of the last call.  byPath: the caller gave a path to open_file
\* (else a stream it had opened itself, positioned at 0); opened, closed: what
\* open_file did; pos: words read or written by the call; reads: np.fromfile
\* calls made by the call.
NoStream == [byPath |-> FALSE, opened |-> FALSE, closed |-> FALSE, pos |-> 0, reads |-> 0]

\* open_file closing whatever it yields, a stream of the caller included.
open_file_ClosesAll(byPath, pos, reads) ==
    [byPath |-> byPath, opened |-> byPath, closed |-> TRUE, pos |-> pos, reads |-> reads]

\* open_file(...) as a context manager around a body that moved the stream
\* to pos in `reads` reads: f.close() runs only if open_file opened the file.
open_file(byPath, pos, reads) ==
    [byPath |-> byPath, opened |-> byPath, closed |-> byPath, pos |-> pos, reads |-> reads]

\* The file a write call leaves: open(path, 'wb') truncates the file; a caller
\* passing a stream has opened (and truncated) the file itself.
AfterWrite(old, byPath, opened, out) ==
    IF byPath /\ ~opened THEN old ELSE File(out)

NoCall == [op |-> "none"]

\* The zones argument of the readers: None, an int, or a label sequence.
ZonesNone == [kind |-> "none", k |-> 0, labels |-> <<>>]
ZonesInt(k) == [kind |-> "int", k |-> k, labels |-> <<>>]
ZonesLabels(l) == [kind |-> "labels", k |-> 0, labels |-> l]
ZoneArgs ==
    {ZonesNone} \cup {ZonesInt(k) : k \in -1..(MaxN + 1)}
    \cup UNION {{ZonesLabels(Ascending(n)), ZonesLabels(Descending(n))} : n \in 0..(MaxN + 1)}

(***************************************************************************)
(* EMX (inro.py read_emx, to_emx; the same code in io.py)                  *)
(***************************************************************************)
\* Labelled with the labels cut to the data instead of a failure.
Labelled_Clipped(data, n, off, stride, labels, tall) ==
    LET k == SliceLen(n, Len(labels))
        sub == SubFlat(data, stride, off, k, k)
        kept == [x \in 1..k |-> labels[x]]
    IN  IF tall THEN Stack(kept, kept, sub) ELSE DataFrame(kept, kept, sub)

\* The tail of read_emx, read_fortran_square: the labelled result.
Labelled(data, n, off, stride, labels, tall) ==
    LET m == Len(labels)
        k == SliceLen(n, m)
        sub == SubFlat(data, stride, off, k, k)
    IN  IF k # m THEN Raise("ValueError")   \* DataFrame: shape of values vs. labels
        ELSE IF tall THEN Stack(labels, labels, sub)
        ELSE DataFrame(labels, labels, sub)

\* The int branch of read_emx, read_fortran_square: data[:zones, :zones].
Truncated(data, n, off, stride, zones, tall) ==
    LET k == SliceLen(n, zones)
        sub == SubFlat(data, stride, off, k, k)
    IN  IF ~tall THEN Array2(k, k, sub)
        ELSE IF zones * zones # k * k THEN Raise("ValueError")  \* sizes differ
        ELSE IF ~CanFlatten(k, k, stride) THEN Raise("AttributeError")
        ELSE Array1(sub)

\* read_emx without the reshape to n x n.
read_emx_Flat(words, zones, tall) ==
    LET n == Isqrt(Len(words))
    IN  IF Len(words) # n * n THEN Raise("NotSquare")
        ELSE IF zones.kind = "none" THEN Array1(words)
        ELSE IF zones.kind = "int" THEN Truncated(words, n, 0, n, zones.k, tall)
        ELSE Labelled(words, n, 0, n, zones.labels, tall)

\* read_emx on the words of the stream.
read_emx(words, zones, tall) ==
    LET n == Isqrt(Len(words))
    IN  IF Len(words) # n * n THEN Raise("NotSquare")
        ELSE IF zones.kind = "none" /\ tall THEN Array1(words)
        ELSE IF zones.kind = "int" THEN Truncated(words, n, 0, n, zones.k, tall)
        ELSE IF zones.kind = "none" THEN Array2(n, n, words)
        ELSE Labelled(words, n, 0, n, zones.labels, tall)

\* to_emx writing the data without padding it to z x z.
emx_out_NoPad(data, z) ==
    IF data.r > z THEN SubFlat(data.d, data.r, 0, z, z) ELSE data.d

\* The z x z buffer to_emx writes for the coerced n x n data.
emx_out(data, z) ==
    IF data.r > z THEN SubFlat(data.d, data.r, 0, z, z)
    ELSE [x \in 1..(z * z) |->
            IF (x - 1) \div z < data.r /\ (x - 1) % z < data.r
            THEN data.d[((x - 1) \div z) * data.r + ((x - 1) % z) + 1]
            ELSE Zero32]

\* to_emx with the test of emmebank_zones made inside the with-block.
to_emx_OpenFirst(matrix, emmebank_zones) ==
    LET data == coerce_matrix(matrix, TRUE, TRUE)
    IN  IF ~(emmebank_zones > 0)
        THEN [ret |-> Raise("InvalidDimension"), opened |-> TRUE, out |-> <<>>]
        ELSE IF data.err # ""
        THEN [ret |-> data, opened |-> TRUE, out |-> <<>>]
        ELSE [ret |-> Done, opened |-> TRUE, out |-> emx_out(data, emmebank_zones)]

\* to_emx: the result, whether open_file was entered, and the words written.
to_emx(matrix, emmebank_zones) ==
    IF ~(emmebank_zones > 0)
    THEN [ret |-> Raise("InvalidDimension"), opened |-> FALSE, out |-> <<>>]
    ELSE LET data == coerce_matrix(matrix, TRUE, TRUE)
         IN  IF data.err # ""
             THEN [ret |-> data, opened |-> TRUE, out |-> <<>>]
             ELSE [ret |-> Done, opened |-> TRUE, out |-> emx_out(data, emmebank_zones)]

(***************************************************************************)
(* FORTRAN (io.py)                                                         *)
(***************************************************************************)
\* expand_array appending nothing.
expand_array_Not(a, n) == a

\* expand_array(a, n, axis=1): n zero columns appended to each row.
expand_array(a, n) ==
    Array2(a.r, a.c + n,
           [x \in 1..(a.r * (a.c + n)) |->
               IF (x - 1) % (a.c + n) < a.c
               THEN a.d[((x - 1) \div (a.c + n)) * a.c + ((x - 1) % (a.c + n)) + 1]
               ELSE Zero32])

\* The n_columns argument of to_fortran: None or an int.
ColsNone == [given |-> FALSE, n |-> 0]
Cols(n) == [given |-> TRUE, n |-> n]

\* np.arange(min_index, rows + 1, dtype=np.int32)
arange(lo, hi) == [x \in 1..Max(hi - lo, 0) |-> lo + x - 1]

\* The words of temp: each row of array after its tag, the tag of row i being
\* the int32 bit pattern index[i] (one index for all rows if broadcast).
fortran_out(array, index) ==
    [x \in 1..(array.r * (array.c + 1)) |->
        IF (x - 1) % (array.c + 1) = 0
        THEN I32(index[IF Len(index) = 1 THEN 1 ELSE ((x - 1) \div (array.c + 1)) + 1])
        ELSE array.d[((x - 1) \div (array.c + 1)) * array.c + ((x - 1) % (array.c + 1))]]

\* to_fortran: the result, whether open_file was entered, the words written.
to_fortran(matrix, n_columns, min_index, force_square) ==
    IF ~(min_index >= 1)
    THEN [ret |-> Raise("InvalidDimension"), opened |-> FALSE, out |-> <<>>]
    ELSE LET coerced == coerce_matrix(matrix, TRUE, force_square)
             array == IF n_columns.given /\ n_columns.n > coerced.c
                      THEN expand_array(coerced, n_columns.n - coerced.c)
                      ELSE coerced
             index == arange(min_index, array.r + 1)
         IN  IF coerced.err # ""
             THEN [ret |-> coerced, opened |-> FALSE, out |-> <<>>]
             ELSE IF Len(index) # array.r /\ Len(index) # 1
             \* temp[:, 0] = index_as_float: could not broadcast
             THEN [ret |-> Raise("ValueError"), opened |-> TRUE, out |-> <<>>]
             ELSE [ret |-> Done, opened |-> TRUE, out |-> fortran_out(array, index)]

\* _infer_fortran_zones without the final decrement: int(0.5 + ((1 + 4 * n_words)**0.5)/2).
infer_n_NoDecrement(n_words) ==
    CHOOSE t \in 1..(n_words + 1) :
        /\ (2 * t - 1) * (2 * t - 1) <= 1 + 4 * n_words
        /\ (2 * t + 1) * (2 * t + 1) > 1 + 4 * n_words

\* _infer_fortran_zones: int(0.5 + ((1 + 4 * n_words)**0.5)/2) - 1, the
\* square root taken exactly.
infer_n(n_words) ==
    (CHOOSE t \in 1..(n_words + 1) :
        /\ (2 * t - 1) * (2 * t - 1) <= 1 + 4 * n_words
        /\ (2 * t + 1) * (2 * t + 1) > 1 + 4 * n_words) - 1

\* read_fortran_square keeping the tag column: matrix[:, :-1] for matrix[:, 1:].
read_fortran_square_KeepTags(words, zones, tall) ==
    LET n == infer_n(Len(words))
    IN  IF Len(words) # n * (n + 1) THEN Raise("NotSquare")
        ELSE IF zones.kind = "none"
        THEN IF ~tall THEN Array2(n, n, SubFlat(words, n + 1, 0, n, n))
             ELSE IF ~CanFlatten(n, n, n + 1) THEN Raise("AttributeError")
             ELSE Array1(SubFlat(words, n + 1, 0, n, n))
        ELSE IF zones.kind = "int" THEN Truncated(words, n, 0, n + 1, zones.k, tall)
        ELSE Labelled(words, n, 0, n + 1, zones.labels, tall)

\* read_fortran_square on the words of the stream.
read_fortran_square(words, zones, tall) ==
    LET n == infer_n(Len(words))
    IN  IF Len(words) # n * (n + 1) THEN Raise("NotSquare")
        ELSE IF zones.kind = "none"
        THEN IF ~tall THEN Array2(n, n, SubFlat(words, n + 1, 1, n, n))
             ELSE IF ~CanFlatten(n, n, n + 1) THEN Raise("AttributeError")
             ELSE Array1(SubFlat(words, n + 1, 1, n, n))
        ELSE IF zones.kind = "int" THEN Truncated(words, n, 1, n + 1, zones.k, tall)
        ELSE Labelled(words, n, 1, n + 1, zones.labels, tall)

\* DataFrame.stack() of a float32 frame: as Stack, the NaN cells dropped.
StackDropNa(index, columns, d) ==
    LET all == Stack(index, columns, d)
        keep == SelectSeq([x \in 1..Len(d) |-> x], LAMBDA x : d[x] # NaN32)
    IN  Result("Series", Len(keep), 1, [i \in 1..Len(keep) |-> d[keep[i]]],
               [i \in 1..Len(keep) |-> all.index[keep[i]]], <<>>)

\* zones.take ignoring the indices: the labels in physical row order.
Take_InOrder(zones, indices) == [i \in 1..Len(indices) |-> zones[i]]

\* zones.take(indices): the labels at the 0-based indices, a negative index
\* counting from the end; TakeFails if an index is out of bounds.
TakeFails(zones, indices) ==
    \E i \in 1..Len(indices) : indices[i] >= Len(zones) \/ indices[i] < -Len(zones)
Take(zones, indices) ==
    [i \in 1..Len(indices) |->
        zones[(IF indices[i] < 0 THEN indices[i] + Len(zones) ELSE indices[i]) + 1]]

\* reindex_axis leaving the frame as it is.
Reindexed_Not(frame, zones, fill) == frame

\* matrix.reindex_axis(zones, axis=0, fill_value): one row per label of
\* zones, the row of the frame that carries the label or a row of fill.
Reindexed(frame, zones, fill) ==
    LET nc == Len(frame.columns)
        rowOf(l) == CHOOSE i \in 1..Len(frame.index) : frame.index[i] = l
    IN  DataFrame(zones, frame.columns,
            [x \in 1..(Len(zones) * nc) |->
                LET l == zones[((x - 1) \div nc) + 1]
                IN  IF \E i \in 1..Len(frame.index) : frame.index[i] = l
                    THEN frame.d[(rowOf(l) - 1) * nc + ((x - 1) % nc) + 1]
                    ELSE fill])

\* The labelled branch of read_fortran_rectangle on rows x (n_columns + 1) words.
RectangleLabelled(words, rows, n_columns, zones, tall, reindex_rows, fill_value) ==
    LET nzones == Len(zones)
        k == SliceLen(rows, nzones)
        kc == SliceLen(n_columns, nzones)
        row_index == [i \in 1..k |-> AsI32(words[(i - 1) * (n_columns + 1) + 1]) - 1]
        frame == DataFrame(Take(zones, row_index), zones,
                           SubFlat(words, n_columns + 1, 1, k, kc))
        out == IF reindex_rows /\ frame.index # zones
               THEN Reindexed(frame, zones, fill_value) ELSE frame
    IN  IF TakeFails(zones, row_index) THEN Raise("IndexError")
        ELSE IF kc # nzones THEN Raise("ValueError")   \* DataFrame: values vs. columns
        ELSE IF reindex_rows /\ frame.index # zones /\ HasDuplicates(frame.index)
        THEN Raise("ValueError")                       \* reindex on a duplicate axis
        ELSE IF tall THEN StackDropNa(out.index, out.columns, out.d)
        ELSE out

\* read_fortran_rectangle on the words of the stream (n_columns >= 0).
read_fortran_rectangle(words, n_columns, zones, tall, reindex_rows, fill_value) ==
    LET rows == Len(words) \div (n_columns + 1)
    IN  IF Len(words) # rows * (n_columns + 1) THEN Raise("LengthMismatch")
        ELSE IF zones.kind = "none"
        THEN IF ~tall THEN Array2(rows, n_columns, SubFlat(words, n_columns + 1, 1, rows, n_columns))
             ELSE IF ~CanFlatten(rows, n_columns, n_columns + 1) THEN Raise("AttributeError")
             ELSE Array1(SubFlat(words, n_columns + 1, 1, rows, n_columns))
        ELSE IF zones.kind = "int"
        THEN LET k == SliceLen(rows, zones.k)
                 kc == SliceLen(n_columns, zones.k)
                 sub == SubFlat(words, n_columns + 1, 1, k, kc)
             IN  IF ~tall THEN Array2(k, kc, sub)
                 ELSE IF zones.k * zones.k # k * kc THEN Raise("ValueError")
                 ELSE IF ~CanFlatten(k, kc, n_columns + 1) THEN Raise("AttributeError")
                 ELSE Array1(sub)
        ELSE RectangleLabelled(words, rows, n_columns, zones.labels, tall,
                               reindex_rows, fill_value)

(***************************************************************************)
(* MDF (inro.py read_mdf, to_mdf, peek_mdf; the same code in io.py)        *)
(***************************************************************************)
\* 0xC4D4F1B2
MAGIC == <<50388, 61874>>

\* lo < w <= hi for a uint32 word w and small lo, hi.
Within(w, lo, hi) == w[1] = 0 /\ lo < w[2] /\ w[2] <= hi

\* The header test without the test of the version.
header_invalid_AnyVersion(magic, version, dtype_index, ndim) ==
    magic # MAGIC \/ ~Within(dtype_index, 0, 4) \/ ~Within(ndim, 0, 2)

\* The header test of read_mdf and peek_mdf on the four header words.
header_invalid(magic, version, dtype_index, ndim) ==
    magic # MAGIC \/ version # U32(1) \/ ~Within(dtype_index, 0, 4) \/ ~Within(ndim, 0, 2)

\* np.fromfile(f, dtype, count) at offset pos: the items read, `width` words
\* each; fewer than count when the file ends first.
ItemsAt(words, pos, width, count) ==
    Min(count, (Len(words) - pos) \div width)
FromFile(words, pos, count) ==
    [x \in 1..ItemsAt(words, pos, 1, count) |-> words[pos + x]]
FromFile64(words, pos, count) ==
    [x \in 1..ItemsAt(words, pos, 2, count) |->
        <<words[pos + 2 * x - 1], words[pos + 2 * x]>>]

\* shape.prod()
Prod(shape) ==
    IF Len(shape) = 0 THEN 1
    ELSE IF Len(shape) = 1 THEN shape[1] ELSE shape[1] * shape[2]

\* The part of read_mdf and peek_mdf up to the label arrays: the failure, or
\* the shape and labels read and the stream position reached.
mdf_head(words) ==
    LET hdr == FromFile(words, 0, 4)
    IN  IF Len(hdr) < 4
        \* magic, version, dtype_index, ndim = ...: not enough values to unpack
        THEN [err |-> "ValueError", pos |-> Len(hdr), reads |-> 1]
        ELSE IF header_invalid(hdr[1], hdr[2], hdr[3], hdr[4])
        THEN [err |-> "HeaderInvalid", pos |-> 4, reads |-> 1]
        ELSE LET ndim == AsI32(hdr[4])
                 shapew == FromFile(words, 4, ndim)
                 shape == [i \in 1..Len(shapew) |-> AsI32(shapew[i])]
                 at1 == 4 + Len(shapew)
                 l1 == IF Len(shape) >= 1 THEN FromFile(words, at1, shape[1]) ELSE <<>>
                 at2 == at1 + Len(l1)
                 l2 == IF Len(shape) >= 2 THEN FromFile(words, at2, shape[2]) ELSE <<>>
             IN  [err |-> "", dtype |-> AsI32(hdr[3]), ndim |-> ndim, shape |-> shape,
                  index |-> [x \in 1..Len(l1) |-> AsI32(l1[x])],
                  columns |-> [x \in 1..Len(l2) |-> AsI32(l2[x])],
                  pos |-> at2 + Len(l2), reads |-> 2 + Len(shape)]

\* The value read_mdf returns for the matrix read (its elements d).
mdf_value(h, d, raw, tall) ==
    IF raw /\ tall THEN [Array1(d) EXCEPT !.dtype = h.dtype]
    \* matrix.shape = shape
    ELSE IF Len(d) # Prod(h.shape) THEN Raise("ValueError")
    ELSE IF Len(h.shape) = 0 THEN Raise("ValueError")
    ELSE IF raw
    THEN IF Len(h.shape) = 1 THEN [Array1(d) EXCEPT !.dtype = h.dtype]
         ELSE [Array2(h.shape[1], h.shape[2], d) EXCEPT !.dtype = h.dtype]
    ELSE IF h.ndim = 1
    THEN IF Len(h.index) # Len(d) THEN Raise("ValueError")
         ELSE [Result("Series", Len(d), 1, d, h.index, <<>>) EXCEPT !.dtype = h.dtype]
    ELSE IF Len(h.shape) < 2 THEN Raise("IndexError")       \* index_list[1]
    ELSE IF Len(h.index) # h.shape[1] \/ Len(h.columns) # h.shape[2]
    THEN Raise("ValueError")
    ELSE IF tall THEN [Stack(h.index, h.columns, d) EXCEPT !.dtype = h.dtype]
    ELSE [DataFrame(h.index, h.columns, d) EXCEPT !.dtype = h.dtype]

\* read_mdf on the words of the stream: result and stream position.
read_mdf(words, raw, tall) ==
    LET h == mdf_head(words)
    IN  IF h.err # "" THEN [ret |-> Raise(h.err), pos |-> h.pos, reads |-> h.reads]
        ELSE LET width == IF h.dtype = 2 THEN 2 ELSE 1
                 d == IF width = 2 THEN FromFile64(words, h.pos, Prod(h.shape))
                      ELSE FromFile(words, h.pos, Prod(h.shape))
             IN  [ret |-> mdf_value(h, d, raw, tall),
                  pos |-> h.pos + width * Len(d), reads |-> h.reads + 1]

\* peek_mdf reading on through the payload.
peek_mdf_ReadsPayload(words, as_index) ==
    LET h == mdf_head(words)
        o == read_mdf(words, TRUE, TRUE)
    IN  IF h.err # "" THEN [ret |-> Raise(h.err), pos |-> h.pos, reads |-> h.reads]
        ELSE [ret |-> Result(IF as_index THEN "list of Index" ELSE "list",
                             0, Len(h.shape), <<>>, h.index, h.columns),
              pos |-> o.pos, reads |-> o.reads]

\* peek_mdf on the words of the stream: result and stream position.
peek_mdf(words, as_index) ==
    LET h == mdf_head(words)
    IN  IF h.err # "" THEN [ret |-> Raise(h.err), pos |-> h.pos, reads |-> h.reads]
        ELSE [ret |-> Result(IF as_index THEN "list of Index" ELSE "list",
                             0, Len(h.shape), <<>>, h.index, h.columns),
              pos |-> h.pos, reads |-> h.reads]

\* to_mdf writing positions 0, 1, ... for the labels of both axes.
to_mdf_Positions(matrix) ==
    IF matrix.kind # "FRAME"
    THEN [ret |-> Raise("TypeError"), opened |-> FALSE, out |-> <<>>]
    ELSE LET data == coerce_matrix(matrix, FALSE, TRUE)
         IN  IF data.err # "" THEN [ret |-> data, opened |-> TRUE, out |-> <<>>]
             ELSE [ret |-> Done, opened |-> TRUE,
                   out |-> <<MAGIC, U32(1), U32(1), U32(2)>>
                           \o <<U32(data.r), U32(data.c)>>
                           \o [x \in 1..data.r |-> I32(x - 1)]
                           \o [x \in 1..data.c |-> I32(x - 1)]
                           \o data.d]

\* to_mdf: the result, whether open_file was entered, the words written.
to_mdf(matrix) ==
    IF matrix.kind \notin {"FRAME", "SERIES"}
    THEN [ret |-> Raise("TypeError"), opened |-> FALSE, out |-> <<>>]
    ELSE LET row_index == IF matrix.kind = "SERIES" THEN Unique(matrix.index, 1)
                          ELSE matrix.index
             column_index == IF matrix.kind = "SERIES" THEN Unique(matrix.index, 2)
                             ELSE matrix.columns
             data == coerce_matrix(matrix, FALSE, TRUE)
         IN  IF data.err # "" THEN [ret |-> data, opened |-> TRUE, out |-> <<>>]
             ELSE [ret |-> Done, opened |-> TRUE,
                   out |-> <<MAGIC, U32(1), U32(1), U32(2)>>
                           \o <<U32(data.r), U32(data.c)>>
                           \o [x \in 1..Len(row_index) |-> I32(row_index[x])]
                           \o [x \in 1..Len(column_index) |-> I32(column_index[x])]
                           \o data.d]

(***************************************************************************)
(* OMX (io.py read_omx, to_omx)                                            *)
(***************************************************************************)
\* An OMX container: its zone mappings [name, keys] and its matrices
\* [name, d] of n x n cells, each in the order the container lists them.
\* Names stand for strings: a smaller number is a string that sorts first.
OmxFile(n, mappings, matrices) ==
    [exists |-> TRUE, n |-> n, mappings |-> mappings, matrices |-> matrices]
NamesOf(entries) == [i \in 1..Len(entries) |-> entries[i].name]
Has(entries, name) == \E i \in 1..Len(entries) : entries[i].name = name
Lookup(entries, name) == entries[CHOOSE i \in 1..Len(entries) : entries[i].name = name]

\* sorted leaving the names in the order given.
sorted_Not(names) == names

RECURSIVE sorted(_)
\* sorted(names)
sorted(names) ==
    IF names = <<>> THEN <<>>
    ELSE LET i == CHOOSE i \in 1..Len(names) :
                      /\ \A j \in 1..Len(names) : names[i] <= names[j]
                      /\ \A j \in 1..(i - 1) : names[j] # names[i]
         IN  <<names[i]>> \o sorted([j \in 1..(Len(names) - 1) |->
                                        IF j < i THEN names[j] ELSE names[j + 1]])

\* The matrices argument of read_omx: None or a list of names; the mapping
\* argument: None or a name.
NamesNone == [given |-> FALSE, names |-> <<>>]
Names(l) == [given |-> TRUE, names |-> l]
MappingNone == [given |-> FALSE, name |-> 0]
Mapping(name) == [given |-> TRUE, name |-> name]

\* What read_omx returns for several matrices: a dict, its entries
\* <<name, value>> in the order of insertion.
Dict(entries) == [err |-> "", kind |-> "dict", entries |-> entries]

\* The value read_omx makes of the n x n cells d under the labels.
omx_value(n, d, labels, raw, tall) ==
    IF raw THEN (IF tall THEN Array1(d) ELSE Array2(n, n, d))
    ELSE IF Len(labels) # n THEN Raise("ValueError")
    ELSE IF tall THEN Stack(labels, labels, d)
    ELSE DataFrame(labels, labels, d)

\* return_value after the loop over the sorted names: one entry per name, a
\* name listed twice being assigned twice.
omx_dict(file, names, labels, raw, tall) ==
    LET firsts == SelectSeq([i \in 1..Len(names) |-> i],
                            LAMBDA i : i = 1 \/ names[i] # names[i - 1])
    IN  [k \in 1..Len(firsts) |->
            <<names[firsts[k]],
              omx_value(file.n, Lookup(file.matrices, names[firsts[k]]).d, labels, raw, tall)>>]

\* read_omx taking the first mapping of the container when none is named.
read_omx_FirstMapping(file, matrices, mapping, raw, tall, squeeze) ==
    LET all_mappings == NamesOf(file.mappings)
        used == IF ~mapping.given /\ ~raw /\ Len(all_mappings) >= 1
                THEN all_mappings[1] ELSE mapping.name
        names == IF matrices.given THEN sorted(matrices.names)
                 ELSE sorted(NamesOf(file.matrices))
        labels == IF ~raw /\ Has(file.mappings, used)
                  THEN Lookup(file.mappings, used).keys ELSE <<>>
        ok == /\ raw \/ Has(file.mappings, used)
              /\ \A i \in 1..Len(names) : Has(file.matrices, names[i])
    IN  IF ~ok THEN [ret |-> Raise("LookupError"), reads |-> <<>>]
        ELSE IF Len(names) = 1 /\ squeeze
        THEN [ret |-> omx_dict(file, names, labels, raw, tall)[1][2], reads |-> names]
        ELSE [ret |-> Dict(omx_dict(file, names, labels, raw, tall)), reads |-> names]

\* read_omx returning the dict whatever squeeze says.
read_omx_NoSqueeze(file, matrices, mapping, raw, tall, squeeze) ==
    LET names == IF matrices.given THEN sorted(matrices.names)
                 ELSE sorted(NamesOf(file.matrices))
        used == IF mapping.given THEN mapping.name
                ELSE IF file.mappings # <<>> THEN file.mappings[1].name ELSE 0
        labels == IF ~raw /\ Has(file.mappings, used)
                  THEN Lookup(file.mappings, used).keys ELSE <<>>
        ok == /\ raw \/ (Has(file.mappings, used) /\ (mapping.given \/ Len(file.mappings) = 1))
              /\ \A i \in 1..Len(names) : Has(file.matrices, names[i])
    IN  IF ~ok THEN [ret |-> Raise("LookupError"), reads |-> <<>>]
        ELSE [ret |-> Dict(omx_dict(file, names, labels, raw, tall)), reads |-> names]

\* read_omx on the container: the result and the names read, in order.
read_omx(file, matrices, mapping, raw, tall, squeeze) ==
    LET all_mappings == NamesOf(file.mappings)
        used == IF ~mapping.given /\ ~raw /\ Len(all_mappings) = 1
                THEN all_mappings[1] ELSE mapping.name
        names == IF matrices.given THEN sorted(matrices.names)
                 ELSE sorted(NamesOf(file.matrices))
        labels == IF ~raw /\ Has(file.mappings, used)
                  THEN Lookup(file.mappings, used).keys ELSE <<>>
        missing == {i \in 1..Len(names) : ~Has(file.matrices, names[i])}
        upto == IF missing = {} THEN Len(names)
                ELSE CHOOSE i \in missing : \A j \in missing : i <= j
        reads == [i \in 1..upto |-> names[i]]
        dict == omx_dict(file, names, labels, raw, tall)
    IN  IF ~mapping.given /\ ~raw /\ Len(all_mappings) # 1
        THEN [ret |-> Raise("AmbiguousMapping"), reads |-> <<>>]
        ELSE IF ~raw /\ ~Has(file.mappings, used)
        THEN [ret |-> Raise("LookupError"), reads |-> <<>>]
        ELSE IF missing # {} THEN [ret |-> Raise("LookupError"), reads |-> reads]
        ELSE IF names # <<>> /\ ~raw /\ Len(labels) # file.n
        THEN [ret |-> Raise("ValueError"), reads |-> <<names[1]>>]
        ELSE IF Len(names) = 1 /\ squeeze THEN [ret |-> dict[1][2], reads |-> reads]
        ELSE [ret |-> Dict(dict), reads |-> reads]

\* A 1D array, a kind of matrix a dict given to to_omx can hold.
Raw1(d) ==
    [kind |-> "RAW1", r |-> Len(d), c |-> 1, d |-> d, index |-> <<>>, columns |-> <<>>]

\* matrix.unstack().values: the cells by label, NaN where the Series has no
\* entry for the pair.
Unstacked(series) ==
    LET rows == Level(series.index, 1)
        cols == Level(series.index, 2)
    IN  [x \in 1..(Len(rows) * Len(cols)) |->
            LET pair == <<rows[((x - 1) \div Len(cols)) + 1], cols[((x - 1) % Len(cols)) + 1]>>
            IN  IF \E i \in 1..Len(series.index) : series.index[i] = pair
                THEN series.d[CHOOSE i \in 1..Len(series.index) : series.index[i] = pair]
                ELSE Num(NaN32, FALSE)]

\* The class of an item as _check_types tells it.
ItemType(m) ==
    IF m.kind = "SERIES" THEN "SERIES" ELSE IF m.kind = "FRAME" THEN "FRAME" ELSE "RAW"

\* A type check that looks at the second item only.
check_types_SecondOnly(items) ==
    IF items = <<>> THEN [err |-> "StopIteration", type |-> ""]
    ELSE IF Len(items) >= 2 /\ ItemType(items[2].m) # ItemType(items[1].m)
    THEN [err |-> "InconsistentMatrixKinds", type |-> ""]
    ELSE [err |-> "", type |-> ItemType(items[1].m)]

\* _check_types on the items of the dict (in its order): the type of the first
\* item, or the failure.
check_types(items) ==
    IF items = <<>> THEN [err |-> "StopIteration", type |-> ""]
    ELSE IF \E i \in 2..Len(items) : ItemType(items[i].m) # ItemType(items[1].m)
    THEN [err |-> "InconsistentMatrixKinds", type |-> ""]
    ELSE [err |-> "", type |-> ItemType(items[1].m)]

\* The checked arrays [name, d] of the dict in its order.
Checked(items) ==
    [i \in 1..Len(items) |-> [name |-> items[i].name, d |-> items[i].m.d]]

\* _check_raw_matrices: the failure, or the arrays and n.
check_raw_matrices(items) ==
    LET first == items[1].m
        n == IF first.kind = "RAW1" THEN Isqrt(first.r) ELSE first.r
    IN  IF first.kind = "RAW1" /\ n * n # first.r THEN [err |-> "NotSquare"]
        ELSE IF first.kind = "RAW" /\ first.r # first.c THEN [err |-> "NotSquare"]
        ELSE IF \E i \in 2..Len(items) :
                    \/ items[i].m.kind # first.kind
                    \/ items[i].m.kind = "RAW1" /\ items[i].m.r # n * n
                    \/ items[i].m.kind = "RAW" /\ (items[i].m.r # n \/ items[i].m.c # n)
        THEN [err |-> "LabelMismatch"]
        ELSE [err |-> "", checked |-> Checked(items),
              zone_index |-> [x \in 1..n |-> x - 1]]

\* _check_matrix_series: the first Series unstacked by label, the others
\* reshaped in their own order by fast_unstack.
check_matrix_series(items) ==
    LET first == items[1].m
        zone_index == Level(first.index, 1)
    IN  IF HasDuplicates(first.index) THEN [err |-> "ValueError"]     \* unstack()
        ELSE IF zone_index # Level(first.index, 2) THEN [err |-> "ShapeMismatch"]
        ELSE IF \E i \in 2..Len(items) : items[i].m.index # first.index
        THEN [err |-> "LabelMismatch"]
        ELSE IF Len(items) >= 2 /\ Len(first.d) # Len(zone_index) * Len(zone_index)
        THEN [err |-> "LengthMismatch"]                               \* fast_unstack
        ELSE [err |-> "",
              checked |-> [i \in 1..Len(items) |->
                              [name |-> items[i].name,
                               d |-> IF i = 1 THEN Unstacked(first) ELSE items[i].m.d]],
              zone_index |-> zone_index]

\* A frame check that compares the sizes of the axes, not their labels.
check_matrix_frames_SizeOnly(items) ==
    LET zone_index == items[1].m.index
    IN  IF zone_index # items[1].m.columns THEN [err |-> "ShapeMismatch"]
        ELSE IF \E i \in 2..Len(items) :
                    \/ Len(items[i].m.index) # Len(zone_index)
                    \/ Len(items[i].m.columns) # Len(zone_index)
        THEN [err |-> "LabelMismatch"]
        ELSE [err |-> "", checked |-> Checked(items), zone_index |-> zone_index]

\* _check_matrix_frames
check_matrix_frames(items) ==
    LET zone_index == items[1].m.index
    IN  IF zone_index # items[1].m.columns THEN [err |-> "ShapeMismatch"]
        ELSE IF \E i \in 2..Len(items) :
                    items[i].m.index # zone_index \/ items[i].m.columns # zone_index
        THEN [err |-> "LabelMismatch"]
        ELSE [err |-> "", checked |-> Checked(items),
              zone_index |-> zone_index]

\* The zone_index argument of to_omx: None or a label sequence.
IndexNone == [given |-> FALSE, labels |-> <<>>]
Index(l) == [given |-> TRUE, labels |-> l]

\* _prep_matrix_dict comparing the target labels as a set, whatever their order.
prep_matrix_dict_AnyOrder(items, desired_zone_index) ==
    LET t == check_types(items)
        o == IF t.type = "RAW" THEN check_raw_matrices(items)
             ELSE IF t.type = "SERIES" THEN check_matrix_series(items)
             ELSE check_matrix_frames(items)
    IN  IF t.err # "" THEN [err |-> t.err]
        ELSE IF o.err # "" THEN o
        ELSE IF /\ desired_zone_index.given
                /\ {desired_zone_index.labels[i] : i \in 1..Len(desired_zone_index.labels)}
                       # {o.zone_index[i] : i \in 1..Len(o.zone_index)}
        THEN [err |-> "LabelMismatch"]
        ELSE o

\* _prep_matrix_dict
prep_matrix_dict(items, desired_zone_index) ==
    LET t == check_types(items)
        o == IF t.type = "RAW" THEN check_raw_matrices(items)
             ELSE IF t.type = "SERIES" THEN check_matrix_series(items)
             ELSE check_matrix_frames(items)
    IN  IF t.err # "" THEN [err |-> t.err]
        ELSE IF o.err # "" THEN o
        ELSE IF desired_zone_index.given /\ desired_zone_index.labels # o.zone_index
        THEN [err |-> "LabelMismatch"]
        ELSE o

\* The descriptions and attrs arguments of to_omx: None, or a dict with an
\* entry for each of `names` (the description text or attribute dict of
\* matrix k is written k here).  The defaults are '' and None.
MetaNone == [given |-> FALSE, names |-> {}]
Meta(names) == [given |-> TRUE, names |-> names]
EmptyText == 0
NoAttrs == 0

\* The step of the loop of to_omx that raises, Len + 1 if none does:
\* descriptions[name] or attrs[name] on a dict without the name (KeyError), or
\* create_matrix failing in the container library on the fail_at-th matrix.
StepError(checked, descriptions, attrs, fail_at, i) ==
    IF descriptions.given /\ checked[i].name \notin descriptions.names THEN "KeyError"
    ELSE IF attrs.given /\ checked[i].name \notin attrs.names THEN "KeyError"
    ELSE IF fail_at = i THEN "LibraryError"
    ELSE ""
FirstError(checked, descriptions, attrs, fail_at) ==
    LET bad == {i \in 1..Len(checked) : StepError(checked, descriptions, attrs, fail_at, i) # ""}
    IN  IF bad = {} THEN Len(checked) + 1 ELSE CHOOSE i \in bad : \A j \in bad : i <= j

\* create_matrix given the name of the matrix as its title, whatever the descriptions.
Created_NameAsTitle(entry, descriptions, attrs) ==
    [name |-> entry.name, d |-> entry.d, title |-> entry.name,
     attrs |-> IF attrs.given THEN entry.name ELSE NoAttrs]

\* create_matrix(name, obj, title=description, attrs=attr)
Created(entry, descriptions, attrs) ==
    [name |-> entry.name, d |-> entry.d,
     title |-> IF descriptions.given THEN entry.name ELSE EmptyText,
     attrs |-> IF attrs.given THEN entry.name ELSE NoAttrs]

\* to_omx undoing the matrices already created when a later one fails.
to_omx_Rollback(items, zone_index, mapping, descriptions, attrs, fail_at) ==
    LET p == prep_matrix_dict(items, zone_index)
    IN  IF p.err # "" THEN [ret |-> Raise(p.err), opened |-> FALSE, file |-> NoFile]
        ELSE LET stop == FirstError(p.checked, descriptions, attrs, fail_at)
             IN  [ret |-> IF stop > Len(p.checked) THEN Done
                          ELSE Raise(StepError(p.checked, descriptions, attrs, fail_at, stop)),
                  opened |-> TRUE,
                  file |-> OmxFile(Len(p.zone_index),
                                   <<[name |-> mapping, keys |-> p.zone_index]>>,
                                   IF stop > Len(p.checked)
                                   THEN [i \in 1..Len(p.checked) |->
                                            Created(p.checked[i], descriptions, attrs)]
                                   ELSE <<>>)]

\* to_omx: the result, whether the container was opened, and the container
\* left when the `with` block closes it: the mapping, then the matrices created
\* before the loop ended or raised, in the order of the dict.
to_omx(items, zone_index, mapping, descriptions, attrs, fail_at) ==
    LET p == prep_matrix_dict(items, zone_index)
    IN  IF p.err # "" THEN [ret |-> Raise(p.err), opened |-> FALSE, file |-> NoFile]
        ELSE LET stop == FirstError(p.checked, descriptions, attrs, fail_at)
             IN  [ret |-> IF stop > Len(p.checked) THEN Done
                          ELSE Raise(StepError(p.checked, descriptions, attrs, fail_at, stop)),
                  opened |-> TRUE,
                  file |-> OmxFile(Len(p.zone_index),
                                   <<[name |-> mapping, keys |-> p.zone_index]>>,
                                   [i \in 1..(stop - 1) |->
                                       Created(p.checked[i], descriptions, attrs)])]

(***************************************************************************)
(* cheval/tree.py                                                          *)
(***************************************************************************)
\* Names stand for strings: a smaller number is a string that sorts first.
TreeNames == 1..3
\* The _ChoiceNode objects a run may create.
MaxNodes == 3

\* A ChoiceTree and the _ChoiceNode objects made for it, in the order of their
\* creation (a node is known by its place in nodes; parent 0 is the tree
\* itself).  all_nodes: the node registered under each name, 0 for none;
\* children: the tree's own _children; cached: _cached_node_index (valid
\* FALSE for None); op, ret: the last call on the tree and what it returned;
\* held: the index the caller got from its last read of node_index; renewed:
\* that read returned another index than the one the caller held before it.
NoIndex == [valid |-> FALSE, idx |-> <<>>]
NoTree ==
    [nodes |-> <<>>, all_nodes |-> [n \in TreeNames |-> 0], children |-> {},
     cached |-> NoIndex, op |-> "none", ret |-> [err |-> ""],
     held |-> NoIndex, renewed |-> FALSE]
ChoiceNode(name, parent, level) ==
    [name |-> name, parent |-> parent, level |-> level, children |-> {}]

\* iterkeys(self._all_nodes)
Registered(t) == {n \in TreeNames : t.all_nodes[n] # 0}

\* parent._children of the tree (0) or of a node, and its update.
ChildrenOf(t, p) == IF p = 0 THEN t.children ELSE t.nodes[p].children
WithChildren(t, p, c) ==
    IF p = 0 THEN [t EXCEPT !.children = c] ELSE [t EXCEPT !.nodes[p].children = c]

\* old_node.parent._children.remove(old_node); set.remove raises KeyError
\* when the node is not in the set.
Detached(t, old) ==
    WithChildren(t, t.nodes[old].parent, ChildrenOf(t, t.nodes[old].parent) \ {old})

\* _root_add leaving the cached index in place.
root_add_KeepsCache(t, parent, new_name, scale_ok, level) ==
    IF ~scale_ok THEN [t EXCEPT !.ret = [err |-> "AssertionError"]]
    ELSE LET old == t.all_nodes[new_name]
         IN  IF old # 0 /\ old \notin ChildrenOf(t, t.nodes[old].parent)
             THEN [t EXCEPT !.ret = [err |-> "KeyError"]]
             ELSE LET t1 == IF old # 0 THEN Detached(t, old) ELSE t
                      new == Len(t.nodes) + 1
                      t2 == [t1 EXCEPT !.nodes = Append(@, ChoiceNode(new_name, parent, level))]
                      t3 == WithChildren(t2, parent, ChildrenOf(t2, parent) \cup {new})
                  IN  [t3 EXCEPT !.all_nodes[new_name] = new,
                                 !.ret = [err |-> "", node |-> new]]

\* _root_add: the tree after the call, ret the node made or the failure.
root_add(t, parent, new_name, scale_ok, level) ==
    IF ~scale_ok THEN [t EXCEPT !.ret = [err |-> "AssertionError"]]
    ELSE LET old == t.all_nodes[new_name]
         IN  IF old # 0 /\ old \notin ChildrenOf(t, t.nodes[old].parent)
             THEN [t EXCEPT !.ret = [err |-> "KeyError"]]
             ELSE LET t1 == IF old # 0 THEN Detached(t, old) ELSE t
                      new == Len(t.nodes) + 1
                      t2 == [t1 EXCEPT !.nodes = Append(@, ChoiceNode(new_name, parent, level))]
                      t3 == WithChildren(t2, parent, ChildrenOf(t2, parent) \cup {new})
                  IN  [t3 EXCEPT !.all_nodes[new_name] = new,
                                 !.cached = NoIndex,
                                 !.ret = [err |-> "", node |-> new]]

\* ChoiceTree.add_node
tree_add_node(t, name, scale_ok) == root_add(t, 0, name, scale_ok, 0)
\* _ChoiceNode.add_node of the node object `node`
node_add_node(t, node, name, scale_ok) ==
    root_add(t, node, name, scale_ok, t.nodes[node].level + 1)

RECURSIVE add_nodes(_, _, _)
\* ChoiceTree.add_nodes(names, logsum_scales): add_node for each name in turn,
\* stopping at the first that fails.
add_nodes(t, names, scales_ok) ==
    IF names = <<>> THEN [t EXCEPT !.ret = [err |-> ""]]
    ELSE LET t1 == tree_add_node(t, Head(names), Head(scales_ok))
         IN  IF t1.ret.err # "" THEN t1 ELSE add_nodes(t1, Tail(names), Tail(scales_ok))

\* ChoiceTree.remove_node
remove_node(t, name) ==
    LET old == t.all_nodes[name]
    IN  IF old = 0 THEN [t EXCEPT !.ret = [err |-> "KeyError"]]
        ELSE IF old \notin ChildrenOf(t, t.nodes[old].parent)
        THEN [t EXCEPT !.ret = [err |-> "KeyError"]]
        ELSE [Detached(t, old) EXCEPT !.all_nodes[name] = 0,
                                      !.cached = NoIndex,
                                      !.ret = [err |-> ""]]

\* ChoiceTree.node_index: the cached index, computed and cached when there is none.
node_index(t) ==
    IF ~t.cached.valid
    THEN LET idx == SortedLabels(Registered(t))
         IN  [t EXCEPT !.cached = [valid |-> TRUE, idx |-> idx], !.ret = [err |-> "", idx |-> idx]]
    ELSE [t EXCEPT !.ret = [err |-> "", idx |-> t.cached.idx]]

\* node_positions[name]: the place of a name in the index, from 0.
PositionOf(idx, name) == (CHOOSE i \in 1..Len(idx) : idx[i] = name) - 1
InIndex(idx, name) == \E i \in 1..Len(idx) : idx[i] = name

\* ChoiceTree.flatten: hierarchy (the position of the parent, -1 at the top)
\* and levels by position; KeyError when the name of a registered node or of
\* its parent is not in the index.
flatten(t) ==
    LET t1 == node_index(t)
        idx == t1.ret.idx
        reg == Registered(t)
        node(n) == t.nodes[t.all_nodes[n]]
    IN  IF \E n \in reg :
               \/ ~InIndex(idx, node(n).name)
               \/ (node(n).parent # 0 /\ ~InIndex(idx, t.nodes[node(n).parent].name))
        THEN [t1 EXCEPT !.ret = [err |-> "KeyError"]]
        ELSE [t1 EXCEPT !.ret =
                 [err |-> "",
                  hierarchy |-> [x \in 1..Len(idx) |->
                                    IF idx[x] \in reg /\ node(idx[x]).parent # 0
                                    THEN PositionOf(idx, t.nodes[node(idx[x]).parent].name)
                                    ELSE -1],
                  levels |-> [x \in 1..Len(idx) |->
                                 IF idx[x] \in reg THEN node(idx[x]).level ELSE 0]]]

(***************************************************************************)
(* Calls                                                                   *)
(***************************************************************************)
\* A write call ends: the file, the stream and the call's record.
WriteEnds(call, o, byPath) ==
    /\ disk' = AfterWrite(disk, byPath, o.opened, o.out)
    /\ stream' = [byPath |-> byPath, opened |-> byPath /\ o.opened,
                  closed |-> byPath /\ o.opened, pos |-> Len(o.out), reads |-> 0]
    /\ wcall' = call
    /\ UNCHANGED <<rcall, tree>>

\* A read call: open(path, 'rb') fails on a missing file; a caller can only
\* pass a stream of a file that exists.
CanRead(byPath) == byPath \/ disk.exists

\* The caller writes at most once, then reads at most once.
MayWrite == wcall.op = "none" /\ rcall.op = "none"
MayRead == rcall.op = "none"

ToEmx(matrix, emmebank_zones, byPath) ==
    LET o == to_emx(matrix, emmebank_zones)
    IN  WriteEnds([op |-> "to_emx", matrix |-> matrix, zones |-> emmebank_zones,
                   byPath |-> byPath, ret |-> o.ret], o, byPath)

ReadEmx(zones, tall, byPath) ==
    /\ CanRead(byPath)
    /\ LET ret == IF ~disk.exists THEN Raise("FileNotFound")
                  ELSE read_emx(disk.words, zones, tall)
       IN  /\ rcall' = [op |-> "read_emx", zones |-> zones, tall |-> tall,
                        byPath |-> byPath, ret |-> ret]
           /\ stream' = IF ~disk.exists THEN [NoStream EXCEPT !.byPath = TRUE]
                        ELSE open_file(byPath, Len(disk.words), 1)
    /\ UNCHANGED <<disk, wcall, tree>>

ToFortran(matrix, n_columns, min_index, force_square, byPath) ==
    LET o == to_fortran(matrix, n_columns, min_index, force_square)
    IN  WriteEnds([op |-> "to_fortran", matrix |-> matrix, n_columns |-> n_columns,
                   min_index |-> min_index, force_square |-> force_square,
                   byPath |-> byPath, ret |-> o.ret], o, byPath)

ReadFortranSquare(zones, tall, byPath) ==
    /\ CanRead(byPath)
    /\ LET ret == IF ~disk.exists THEN Raise("FileNotFound")
                  ELSE read_fortran_square(disk.words, zones, tall)
       IN  /\ rcall' = [op |-> "read_fortran_square", zones |-> zones, tall |-> tall,
                        byPath |-> byPath, ret |-> ret]
           /\ stream' = IF ~disk.exists THEN [NoStream EXCEPT !.byPath = TRUE]
                        ELSE open_file(byPath, Len(disk.words), 1)
    /\ UNCHANGED <<disk, wcall, tree>>

ReadFortranRectangle(n_columns, zones, tall, reindex_rows, fill_value, byPath) ==
    /\ CanRead(byPath)
    /\ LET ret == IF ~disk.exists THEN Raise("FileNotFound")
                  ELSE read_fortran_rectangle(disk.words, n_columns, zones, tall,
                                              reindex_rows, fill_value)
       IN  /\ rcall' = [op |-> "read_fortran_rectangle", n_columns |-> n_columns,
                        zones |-> zones, tall |-> tall, reindex_rows |-> reindex_rows,
                        fill_value |-> fill_value, byPath |-> byPath, ret |-> ret]
           /\ stream' = IF ~disk.exists THEN [NoStream EXCEPT !.byPath = TRUE]
                        ELSE open_file(byPath, Len(disk.words), 1)
    /\ UNCHANGED <<disk, wcall, tree>>

ToMdf(matrix, byPath) ==
    LET o == to_mdf(matrix)
    IN  WriteEnds([op |-> "to_mdf", matrix |-> matrix, byPath |-> byPath,
                   ret |-> o.ret], o, byPath)

ReadMdf(raw, tall, byPath) ==
    /\ CanRead(byPath)
    /\ LET o == read_mdf(disk.words, raw, tall)
       IN  /\ rcall' = [op |-> "read_mdf", raw |-> raw, tall |-> tall, byPath |-> byPath,
                        ret |-> IF ~disk.exists THEN Raise("FileNotFound") ELSE o.ret]
           /\ stream' = IF ~disk.exists THEN [NoStream EXCEPT !.byPath = TRUE]
                        ELSE open_file(byPath, o.pos, o.reads)
    /\ UNCHANGED <<disk, wcall, tree>>

PeekMdf(as_index, byPath) ==
    /\ CanRead(byPath)
    /\ LET o == peek_mdf(disk.words, as_index)
       IN  /\ rcall' = [op |-> "peek_mdf", as_index |-> as_index, byPath |-> byPath,
                        ret |-> IF ~disk.exists THEN Raise("FileNotFound") ELSE o.ret]
           /\ stream' = IF ~disk.exists THEN [NoStream EXCEPT !.byPath = TRUE]
                        ELSE open_file(byPath, o.pos, o.reads)
    /\ UNCHANGED <<disk, wcall, tree>>

ReadOmx(matrices, mapping, raw, tall, squeeze) ==
    /\ disk.exists
    /\ LET o == read_omx(disk, matrices, mapping, raw, tall, squeeze)
       IN  /\ rcall' = [op |-> "read_omx", matrices |-> matrices, mapping |-> mapping,
                        raw |-> raw, tall |-> tall, squeeze |-> squeeze,
                        ret |-> o.ret, reads |-> o.reads]
           /\ stream' = [NoStream EXCEPT !.byPath = TRUE, !.opened = TRUE,
                                         !.closed = TRUE, !.reads = Len(o.reads)]
    /\ UNCHANGED <<disk, wcall, tree>>

ToOmx(items, zone_index, mapping, descriptions, attrs, fail_at) ==
    /\ LET o == to_omx(items, zone_index, mapping, descriptions, attrs, fail_at)
       IN  /\ disk' = IF o.opened THEN o.file ELSE disk
           /\ stream' = [NoStream EXCEPT !.byPath = TRUE, !.opened = o.opened,
                                         !.closed = o.opened]
           /\ wcall' = [op |-> "to_omx", items |-> items, zone_index |-> zone_index,
                        mapping |-> mapping, descriptions |-> descriptions,
                        attrs |-> attrs, fail_at |-> fail_at, ret |-> o.ret]
    /\ UNCHANGED <<rcall, tree>>

\* A file left by an earlier run.
OldFile == File(<<One32, One32>>)

Init ==
    /\ disk \in {NoFile, OldFile}
    /\ stream = NoStream
    /\ wcall = NoCall
    /\ rcall = NoCall
    /\ tree = NoTree

DoToEmx ==
    /\ MayWrite
    /\ \E m \in Matrices, z \in -1..(MaxN + 1), byPath \in BOOLEAN : ToEmx(m, z, byPath)
DoReadEmx ==
    /\ MayRead
    /\ \E zones \in ZoneArgs, tall \in BOOLEAN, byPath \in BOOLEAN : ReadEmx(zones, tall, byPath)

NextEmx == DoToEmx \/ DoReadEmx

SpecEmx == Init /\ [][NextEmx]_vars

ColsArgs == {ColsNone} \cup {Cols(n) : n \in 0..(MaxN + 1)}

DoToFortran ==
    /\ MayWrite
    /\ \E m \in Matrices, n_columns \in ColsArgs, min_index \in 0..MaxN,
          force_square \in BOOLEAN, byPath \in BOOLEAN :
            ToFortran(m, n_columns, min_index, force_square, byPath)
DoReadFortranSquare ==
    /\ MayRead
    /\ \E zones \in ZoneArgs, tall \in BOOLEAN, byPath \in BOOLEAN :
            ReadFortranSquare(zones, tall, byPath)

NextFortran == DoToFortran \/ DoReadFortranSquare

SpecFortran == Init /\ [][NextFortran]_vars

\* FORTRAN streams as a reader may meet them: rows of n_columns data words
\* under tags in any order (also a repeated tag, tag 0 and a tag past the
\* last row), and streams of every length up to MaxWords.
TagSeqs ==
    UNION {{t \in [1..r -> 1..MaxRows] : \A i, j \in 1..r : t[i] = t[j] => i = j} :
              r \in 0..MaxRows}
    \cup {<<2, 2>>, <<0>>, <<MaxRows + 1>>}
FortranWords(tags, n_columns) ==
    [x \in 1..(Len(tags) * (n_columns + 1)) |->
        IF (x - 1) % (n_columns + 1) = 0 THEN I32(tags[((x - 1) \div (n_columns + 1)) + 1])
        ELSE <<16256, x>>]
FortranStreams ==
    {FortranWords(tags, c) : tags \in TagSeqs, c \in 0..MaxRows}
    \cup {[x \in 1..w |-> <<16256, x>>] : w \in 0..MaxWords}

InitFortranRead ==
    /\ disk \in {File(ws) : ws \in FortranStreams}
    /\ stream = NoStream
    /\ wcall = NoCall
    /\ rcall = NoCall
    /\ tree = NoTree

DoReadFortranRectangle ==
    /\ MayRead
    /\ \E n_columns \in 0..MaxRows, zones \in ZoneArgs, tall \in BOOLEAN,
          reindex_rows \in BOOLEAN, fill_value \in {NaN32, One32}, byPath \in BOOLEAN :
            ReadFortranRectangle(n_columns, zones, tall, reindex_rows, fill_value, byPath)

SpecFortranRead ==
    InitFortranRead /\ [][DoReadFortranSquare \/ DoReadFortranRectangle]_vars

DoToMdf ==
    /\ MayWrite
    /\ \E m \in Matrices, byPath \in BOOLEAN : ToMdf(m, byPath)
DoReadMdf ==
    /\ MayRead
    /\ \E raw \in BOOLEAN, tall \in BOOLEAN, byPath \in BOOLEAN : ReadMdf(raw, tall, byPath)
DoPeekMdf ==
    /\ MayRead
    /\ \E as_index \in BOOLEAN, byPath \in BOOLEAN : PeekMdf(as_index, byPath)

NextMdf == DoToMdf \/ DoReadMdf \/ DoPeekMdf

SpecMdf == Init /\ [][NextMdf]_vars

\* MDF streams as a reader may meet them: any header, and under a valid
\* header any shape, cut off after any number of words.
MdfWords(magic, version, dtype_index, ndim, shape) ==
    <<magic, U32(version), U32(dtype_index), U32(ndim)>>
    \o [i \in 1..ndim |-> U32(shape[i])]
    \o (IF ndim >= 1 THEN [x \in 1..shape[1] |-> I32(x - 2)] ELSE <<>>)
    \o (IF ndim >= 2 THEN [x \in 1..shape[2] |-> I32(shape[2] - x)] ELSE <<>>)
    \o [x \in 1..((IF dtype_index = 2 THEN 2 ELSE 1) *
                  (IF ndim = 1 THEN shape[1] ELSE shape[1] * shape[2])) |-> <<16256, x>>]
Cut(words, k) == [x \in 1..k |-> words[x]]
Cuts(words) == {Cut(words, k) : k \in 0..Len(words)}
MdfStreams ==
    UNION {Cuts(MdfWords(MAGIC, 1, dt, nd, sh)) :
              dt \in 1..4, nd \in 1..2, sh \in [1..2 -> 0..MaxN]}
    \cup {MdfWords(mg, v, dt, nd, <<1, 1>>) :
              mg \in {MAGIC, <<50388, 61875>>, Zero32}, v \in 0..2, dt \in 0..5, nd \in 0..2}
    \cup Cuts(MdfWords(Zero32, 1, 1, 2, <<1, 1>>))

InitMdfRead ==
    /\ disk \in {File(ws) : ws \in MdfStreams}
    /\ stream = NoStream
    /\ wcall = NoCall
    /\ rcall = NoCall
    /\ tree = NoTree

SpecMdfRead == InitMdfRead /\ [][DoReadMdf \/ DoPeekMdf]_vars

\* OMX containers as a reader may meet them: matrices of size 1 or 2 stored
\* in any order, and no, one or two zone mappings (mapping 1 with descending
\* keys, mapping 2 with ascending keys from 11).
NameLists(maxLen) ==
    UNION {[1..k -> 1..MaxNames] : k \in 0..maxLen}
StoredNames ==
    {l \in NameLists(MaxNames) : \A i, j \in 1..Len(l) : l[i] = l[j] => i = j}
OmxMapping(name, n) ==
    [name |-> name, keys |-> IF name = 1 THEN Descending(n) ELSE [x \in 1..n |-> 10 + x]]
OmxMatrix(name, n) ==
    [name |-> name, d |-> [x \in 1..(n * n) |-> <<16256, 10 * name + x>>]]
OmxFiles ==
    {OmxFile(n, [i \in 1..Len(ms) |-> OmxMapping(ms[i], n)],
             [i \in 1..Len(l) |-> OmxMatrix(l[i], n)]) :
        n \in 1..2, ms \in {<<>>, <<1>>, <<2>>, <<1, 2>>, <<2, 1>>}, l \in StoredNames}

InitOmxRead ==
    /\ disk \in OmxFiles
    /\ stream = NoStream
    /\ wcall = NoCall
    /\ rcall = NoCall
    /\ tree = NoTree

DoReadOmx ==
    /\ MayRead
    /\ \E matrices \in {NamesNone} \cup {Names(l) : l \in NameLists(2)},
          mapping \in {MappingNone} \cup {Mapping(k) : k \in 1..3},
          raw \in BOOLEAN, tall \in BOOLEAN, squeeze \in BOOLEAN :
            ReadOmx(matrices, mapping, raw, tall, squeeze)

SpecOmxRead == InitOmxRead /\ [][DoReadOmx]_vars

\* The matrices a dict given to to_omx holds: 2D and 1D arrays, wide frames
\* and tall Series of sizes 1 and 2, square or not, with labels in several
\* orders; the dicts of up to MaxNames of them, named in the order of insertion.
Zeros(n) == [x \in 1..n |-> ZeroVal]
Pairs(rows, cols) == Stack(rows, cols, Zeros(Len(rows) * Len(cols))).index
OmxItems ==
    {RawMatrix(1, 1, Zeros(1)), RawMatrix(2, 2, Zeros(4)), RawMatrix(1, 2, Zeros(2)),
     Raw1(Zeros(4)), Raw1(Zeros(2)),
     Frame(Ascending(1), Ascending(1), Zeros(1)), Frame(Ascending(2), Ascending(2), Zeros(4)),
     Frame(Descending(2), Descending(2), Zeros(4)),
     Frame(Ascending(2), Descending(2), Zeros(4)),
     Series(Pairs(Ascending(1), Ascending(1)), Zeros(1)),
     Series(Pairs(Ascending(2), Ascending(2)), Zeros(4)),
     Series(Pairs(Descending(2), Descending(2)), Zeros(4)),
     Series(Pairs(<<0, 1>>, <<0, 1>>), Zeros(4)),
     Series(<<<<1, 1>>, <<2, 2>>>>, Zeros(2))}
OmxDict(ms) == [i \in 1..Len(ms) |-> [name |-> i, m |-> ms[i]]]

\* The default of the mapping argument, 'zone_numbers'.
DefaultMapping == 1

InitOmxWrite ==
    /\ disk \in {NoFile, OmxFile(1, <<OmxMapping(1, 1)>>, <<OmxMatrix(1, 1)>>)}
    /\ stream = NoStream
    /\ wcall = NoCall
    /\ rcall = NoCall
    /\ tree = NoTree

DoToOmx ==
    /\ MayWrite
    /\ \E k \in 0..MaxNames : \E ms \in [1..k -> OmxItems],
          zone_index \in {IndexNone, Index(<<0, 1>>), Index(Ascending(2)), Index(Descending(2))} :
            ToOmx(OmxDict(ms), zone_index, DefaultMapping, MetaNone, MetaNone, 0)

\* to_omx on a dict of equal matrices, with descriptions and attrs for some of
\* the names, all of them or none, under a mapping name of the caller, and
\* with the container library failing on one of the matrices or on none.
DoToOmxMeta ==
    /\ MayWrite
    /\ \E k \in 1..MaxNames :
        \E m \in {RawMatrix(2, 2, Zeros(4)), Frame(Descending(2), Descending(2), Zeros(4))},
           descriptions \in {MetaNone} \cup {Meta(S) : S \in SUBSET (1..k)},
           attrs \in {MetaNone} \cup {Meta(S) : S \in SUBSET (1..k)},
           fail_at \in 0..k, mapping \in 1..2 :
            ToOmx(OmxDict([i \in 1..k |-> m]), IndexNone, mapping, descriptions, attrs, fail_at)

SpecOmxWrite == InitOmxWrite /\ [][DoToOmx \/ DoToOmxMeta]_vars

\* Every codec that takes a file, called with a path or with a stream of the
\* caller, on inputs that return and on inputs that fail before, at and after
\* the opening of the file.
StreamMatrices ==
    {RawMatrix(1, 1, Zeros(1)), RawMatrix(1, 2, Zeros(2)),
     Frame(Ascending(2), Ascending(2), Zeros(4)), Frame(Ascending(2), Descending(2), Zeros(4))}
StreamToMdf ==
    /\ MayWrite
    /\ \E m \in StreamMatrices, byPath \in BOOLEAN : ToMdf(m, byPath)
StreamToEmx ==
    /\ MayWrite
    /\ \E m \in StreamMatrices, z \in 0..2, byPath \in BOOLEAN : ToEmx(m, z, byPath)
StreamToFortran ==
    /\ MayWrite
    /\ \E m \in StreamMatrices, min_index \in 0..2, byPath \in BOOLEAN :
            ToFortran(m, ColsNone, min_index, TRUE, byPath)
StreamReadMdf ==
    /\ MayRead
    /\ \E raw \in BOOLEAN, byPath \in BOOLEAN : ReadMdf(raw, FALSE, byPath)
StreamPeekMdf ==
    /\ MayRead
    /\ \E byPath \in BOOLEAN : PeekMdf(TRUE, byPath)
StreamReadEmx ==
    /\ MayRead
    /\ \E zones \in {ZonesNone, ZonesInt(1)}, byPath \in BOOLEAN : ReadEmx(zones, FALSE, byPath)
StreamReadFortranSquare ==
    /\ MayRead
    /\ \E tall \in BOOLEAN, byPath \in BOOLEAN : ReadFortranSquare(ZonesNone, tall, byPath)
StreamReadFortranRectangle ==
    /\ MayRead
    /\ \E n_columns \in 1..2, byPath \in BOOLEAN :
            ReadFortranRectangle(n_columns, ZonesNone, FALSE, FALSE, NaN32, byPath)

NextStreams ==
    \/ StreamToMdf \/ StreamToEmx \/ StreamToFortran
    \/ StreamReadMdf \/ StreamPeekMdf \/ StreamReadEmx
    \/ StreamReadFortranSquare \/ StreamReadFortranRectangle

SpecStreams == Init /\ [][NextStreams]_vars

\* Labelled matrices given to to_mdf, the value of the cell of row o and
\* column d telling its labels: wide frames with axes in several orders, and
\* tall Series of up to MaxPairs entries for distinct pairs of labels, in any
\* order, complete or not, with equal or different row and column labels.
MaxPairs == 4
TallLabels == 1..3
CellOf(o, d) == Num(<<16256, 10 * o + d>>, FALSE)
WideOf(index, columns) ==
    Frame(index, columns,
          [x \in 1..(Len(index) * Len(columns)) |->
              CellOf(index[((x - 1) \div Len(columns)) + 1],
                     columns[((x - 1) % Len(columns)) + 1])])
TallOf(index) == Series(index, [x \in 1..Len(index) |-> CellOf(index[x][1], index[x][2])])

DoToMdfWide ==
    /\ MayWrite
    /\ \E index \in {Ascending(2), Descending(2), <<3, 1, 2>>},
          columns \in {Ascending(2), Descending(2), <<3, 1, 2>>}, byPath \in BOOLEAN :
            ToMdf(WideOf(index, columns), byPath)
DoToMdfTall ==
    /\ MayWrite
    /\ \E k \in 1..MaxPairs : \E index \in [1..k -> TallLabels \X TallLabels], byPath \in BOOLEAN :
            /\ ~HasDuplicates(index)
            /\ ToMdf(TallOf(index), byPath)

SpecMdfWrite == Init /\ [][DoToMdfWide \/ DoToMdfTall]_vars

\* A call on the tree or on one of the node objects made so far.
TreeCall(op, t) ==
    /\ tree' = [t EXCEPT !.op = op]
    /\ UNCHANGED <<disk, stream, wcall, rcall>>
MayAdd(k) == Len(tree.nodes) + k <= MaxNodes

TreeAddNode ==
    /\ MayAdd(1)
    /\ \E name \in TreeNames, scale_ok \in BOOLEAN :
            TreeCall("add_node", tree_add_node(tree, name, scale_ok))
NodeAddNode ==
    /\ MayAdd(1)
    /\ \E node \in 1..Len(tree.nodes), name \in TreeNames, scale_ok \in BOOLEAN :
            TreeCall("node.add_node", node_add_node(tree, node, name, scale_ok))
TreeAddNodes ==
    /\ MayAdd(2)
    /\ \E names \in [1..2 -> TreeNames], scales_ok \in [1..2 -> BOOLEAN] :
            TreeCall("add_nodes", add_nodes(tree, names, scales_ok))
TreeRemoveNode ==
    \E name \in TreeNames : TreeCall("remove_node", remove_node(tree, name))
TreeNodeIndex ==
    LET t == node_index(tree)
    IN  TreeCall("node_index",
                 [t EXCEPT !.held = [valid |-> TRUE, idx |-> t.ret.idx],
                           !.renewed = tree.held.valid /\ tree.held.idx # t.ret.idx])
TreeFlatten == TreeCall("flatten", flatten(tree))

InitTree ==
    /\ disk = NoFile
    /\ stream = NoStream
    /\ wcall = NoCall
    /\ rcall = NoCall
    /\ tree = NoTree

NextTree ==
    \/ TreeAddNode \/ NodeAddNode \/ TreeAddNodes
    \/ TreeRemoveNode \/ TreeNodeIndex \/ TreeFlatten

SpecTree == InitTree /\ [][NextTree]_vars

(***************************************************************************)
(* Properties                                                              *)
(***************************************************************************)
\* The caller wrote `op` with a square input (n x n, equal axes if labelled).
WroteSquare(op) == wcall.op = op /\ IsSquareInput(wcall.matrix)

\* ret is the unlabelled n x n array whose cells are those of matrix m.
SameCells(ret, m) ==
    /\ ret.err = "" /\ ret.kind = "ndarray"
    /\ ret.r = m.r /\ ret.c = m.c /\ Len(ret.d) = Len(m.d)
    /\ \A x \in 1..Len(m.d) : ValOf(ret.d[x]) = m.d[x]

\* The EMX round trip as the caller runs it: to_emx(M, emmebank_zones=n) on a
\* square float32 M, then read_emx(zones=None, tall=False).
EmxRoundTrip ==
    /\ WroteSquare("to_emx") /\ IsFloat32Matrix(wcall.matrix)
    /\ wcall.zones = wcall.matrix.r
    /\ rcall.op = "read_emx" /\ rcall.zones = ZonesNone /\ ~rcall.tall

\* C2 as stated: the EMX round trip returns M for every square float32 M,
\* the 0 x 0 matrix included.
C2_EmxRoundTripAnySize == EmxRoundTrip => SameCells(rcall.ret, wcall.matrix)

\* C2 amended: the EMX round trip returns an n x n array equal to M element
\* for element for every square float32 M with n >= 1; for n = 0 the write is
\* rejected (emmebank_zones must be positive).
C2_EmxRoundTrip ==
    EmxRoundTrip =>
        IF wcall.matrix.r >= 1 THEN SameCells(rcall.ret, wcall.matrix)
        ELSE wcall.ret.err = "InvalidDimension"
C2_Witness ==
    /\ EmxRoundTrip /\ wcall.matrix.r = MaxN
    /\ \E x \in 1..Len(wcall.matrix.d) : wcall.matrix.d[x] # ZeroVal
    /\ rcall.ret.err = ""

\* C7: to_emx(M, z) with M n x n and z > 0 succeeds and leaves exactly z*z
\* float32 words: cell (i, j) is M[i, j] (as float32) for i, j < n and 0.0
\* elsewhere, which is the top-left z x z block of M when n > z.
C7_EmxWritePadsOrTruncates ==
    (WroteSquare("to_emx") /\ wcall.zones > 0) =>
        LET z == wcall.zones
            m == wcall.matrix
        IN  /\ wcall.ret.err = ""
            /\ disk.exists /\ Len(disk.words) = z * z
            /\ \A i \in 0..(z - 1), j \in 0..(z - 1) :
                  disk.words[i * z + j + 1] =
                      IF i < m.r /\ j < m.r THEN AsFloat32(m.d[i * m.r + j + 1])
                      ELSE Zero32
C7_Witness ==
    /\ WroteSquare("to_emx") /\ wcall.matrix.r = MaxN /\ wcall.zones = MaxN - 1
    /\ wcall.matrix.d[MaxN * MaxN] # ZeroVal
    /\ disk.exists /\ Len(disk.words) = (MaxN - 1) * (MaxN - 1)

\* C8: to_emx with emmebank_zones <= 0 fails with InvalidDimension without
\* entering open_file: nothing is opened, nothing is written, and the file at
\* the target path is left as it was.
C8_EmxRejectsBeforeOpen ==
    [][(wcall.op = "none" /\ wcall'.op = "to_emx" /\ wcall'.zones <= 0) =>
          /\ wcall'.ret.err = "InvalidDimension"
          /\ ~stream'.opened /\ stream'.pos = 0
          /\ wcall'.byPath => disk' = disk]_vars
C8_Witness ==
    /\ wcall.op = "to_emx" /\ wcall.zones <= 0 /\ wcall.byPath
    /\ wcall.ret.err = "InvalidDimension" /\ disk = OldFile

\* The stream read_emx read holds an n x n matrix and zones was the int k.
ReadEmxInt ==
    /\ rcall.op = "read_emx" /\ rcall.zones.kind = "int" /\ disk.exists
    /\ Len(disk.words) >= 1
    /\ Len(disk.words) = Isqrt(Len(disk.words)) * Isqrt(Len(disk.words))

\* C9: read_emx with an integer zones = k (0 <= k <= n) on an n x n file
\* returns the top-left k x k block, as a k x k array, or with tall=True as
\* the flat row-major array of its k*k values.
C9_EmxIntTruncation ==
    LET n == Isqrt(Len(disk.words))
        k == rcall.zones.k
    IN  (ReadEmxInt /\ 0 <= k /\ k <= n) =>
            /\ rcall.ret.err = ""
            /\ rcall.ret.kind = IF rcall.tall THEN "ndarray1" ELSE "ndarray"
            /\ Len(rcall.ret.d) = k * k
            /\ \A i \in 0..(k - 1), j \in 0..(k - 1) :
                  rcall.ret.d[i * k + j + 1] = disk.words[i * n + j + 1]

\* The stream read_emx read holds an n x n matrix and zones was a label
\* sequence; tall=False.
ReadEmxLabels ==
    /\ rcall.op = "read_emx" /\ rcall.zones.kind = "labels" /\ ~rcall.tall
    /\ disk.exists
    /\ Len(disk.words) = Isqrt(Len(disk.words)) * Isqrt(Len(disk.words))

\* ret is the m x m DataFrame labelled L on both axes holding the top-left
\* m x m block of the n x n words.
LabelledBlock(ret, L, words, n) ==
    /\ ret.err = "" /\ ret.kind = "DataFrame"
    /\ ret.index = L /\ ret.columns = L
    /\ ret.r = Len(L) /\ ret.c = Len(L) /\ Len(ret.d) = Len(L) * Len(L)
    /\ \A i \in 0..(Len(L) - 1), j \in 0..(Len(L) - 1) :
          ret.d[i * Len(L) + j + 1] = words[i * n + j + 1]

\* C10 as stated: read_emx with labels L of length m always returns the
\* m x m frame labelled L, whatever the size n of the file.
C10_EmxLabelledAlways ==
    (ReadEmxLabels /\ Len(disk.words) >= 1) =>
        LabelledBlock(rcall.ret, rcall.zones.labels, disk.words, Isqrt(Len(disk.words)))

\* C10 amended: for m <= n read_emx (tall=False) returns the top-left m x m
\* block with L as row and column labels, in the order of L; for m > n the
\* call fails, the n x n data not fitting m labels.
C10_EmxLabelled ==
    ReadEmxLabels =>
        IF Len(rcall.zones.labels) <= Isqrt(Len(disk.words))
        THEN LabelledBlock(rcall.ret, rcall.zones.labels, disk.words,
                           Isqrt(Len(disk.words)))
        ELSE rcall.ret.err = "ValueError"
C10_Witness ==
    /\ ReadEmxLabels /\ rcall.zones.labels = Descending(MaxN)
    /\ Len(disk.words) = (MaxN + 1) * (MaxN + 1)
    /\ rcall.ret.kind = "DataFrame"
    /\ \E x \in 1..Len(rcall.ret.d) : rcall.ret.d[x] # Zero32

\* The FORTRAN round trip as the caller runs it: to_fortran(M) with
\* n_columns=None and min_index=1 on a square float32 M with n >= 1, then
\* read_fortran_square(zones=None, tall=False).
FortranRoundTrip ==
    /\ WroteSquare("to_fortran") /\ IsFloat32Matrix(wcall.matrix)
    /\ wcall.matrix.r >= 1
    /\ wcall.n_columns = ColsNone /\ wcall.min_index = 1
    /\ rcall.op = "read_fortran_square" /\ rcall.zones = ZonesNone /\ ~rcall.tall

\* C1: the FORTRAN-square round trip returns an n x n array equal to M
\* element for element.
C1_FortranRoundTrip ==
    FortranRoundTrip => wcall.ret.err = "" /\ SameCells(rcall.ret, wcall.matrix)
C1_Witness ==
    /\ FortranRoundTrip /\ wcall.matrix.r = MaxN
    /\ wcall.matrix.d[MaxN] # ZeroVal
    /\ rcall.ret.kind = "ndarray" /\ rcall.ret.r = MaxN

\* The MDF round trip as the caller runs it: to_mdf(M) on a labelled wide
\* square M (index equal to columns), then read_mdf(raw=False, tall=False).
MdfRoundTrip ==
    /\ wcall.op = "to_mdf" /\ wcall.matrix.kind = "FRAME"
    /\ wcall.matrix.index = wcall.matrix.columns
    /\ rcall.op = "read_mdf" /\ ~rcall.raw /\ ~rcall.tall

\* ret is the DataFrame with the values, row labels and column labels of m.
SameFrame(ret, m) ==
    /\ ret.err = "" /\ ret.kind = "DataFrame"
    /\ ret.index = m.index /\ ret.columns = m.columns
    /\ Len(ret.d) = Len(m.d)
    /\ \A x \in 1..Len(m.d) : ValOf(ret.d[x]) = m.d[x]

\* C3 as stated: the MDF round trip returns the values and labels of M for
\* every labelled wide square M, whatever the precision of its values.
C3_MdfRoundTripAnyPrecision == MdfRoundTrip => SameFrame(rcall.ret, wcall.matrix)

\* C3 amended: the MDF round trip returns the same values, row labels and
\* column labels in the same order for every labelled wide square M whose
\* values are float32 (to_mdf narrows other values to float32).
C3_MdfRoundTrip ==
    (MdfRoundTrip /\ IsFloat32Matrix(wcall.matrix)) => SameFrame(rcall.ret, wcall.matrix)
C3_Witness ==
    /\ MdfRoundTrip /\ IsFloat32Matrix(wcall.matrix)
    /\ wcall.matrix.index = Descending(MaxN)
    /\ wcall.matrix.d[MaxN] # ZeroVal
    /\ rcall.ret.kind = "DataFrame" /\ rcall.ret.index = Descending(MaxN)

\* C4: read_mdf on a stream whose first word is not the magic number fails
\* with HeaderInvalid after the one read that fetched the header, and reads
\* nothing more from the stream.
C4_MdfBadMagicRejected ==
    (/\ rcall.op = "read_mdf" /\ disk.exists
     /\ Len(disk.words) >= 1 /\ disk.words[1] # MAGIC)
    => (rcall.ret.err = "HeaderInvalid" /\ stream.reads = 1)

\* The stream holds the four header words.
HasHeader == disk.exists /\ Len(disk.words) >= 4

\* The header of the stream is one the format allows: the magic number,
\* version 1, a data type code in 1..4 and 1 or 2 dimensions.
HeaderAllowed ==
    /\ disk.words[1] = MAGIC
    /\ disk.words[2] = U32(1)
    /\ disk.words[3] \in {U32(t) : t \in 1..4}
    /\ disk.words[4] \in {U32(1), U32(2)}

\* C5: on a stream that holds a header, read_mdf and peek_mdf each fail with
\* HeaderInvalid exactly when the magic number, the version, the data type
\* code or the number of dimensions is not an allowed one; so both accept and
\* reject the same headers.
C5_MdfHeaderValidation ==
    (rcall.op \in {"read_mdf", "peek_mdf"} /\ HasHeader)
    => (rcall.ret.err = "HeaderInvalid" <=> ~HeaderAllowed)
C5_Witness ==
    /\ rcall.op = "peek_mdf" /\ HasHeader
    /\ disk.words[1] = MAGIC /\ disk.words[2] = U32(1) /\ disk.words[4] = U32(2)
    /\ disk.words[3] = U32(5)
    /\ rcall.ret.err = "HeaderInvalid"

\* Where the payload of the stream starts, counted in words from the header
\* fields of the stream itself.
Ndim == AsI32(disk.words[4])
ShapeAt(i) == AsI32(disk.words[4 + i])
LabelsEnd(i) == 4 + Ndim + (IF i >= 1 THEN ShapeAt(1) ELSE 0) + (IF i >= 2 THEN ShapeAt(2) ELSE 0)
PayloadStart == LabelsEnd(Ndim)
LabelsAt(i) == [x \in 1..ShapeAt(i) |-> AsI32(disk.words[LabelsEnd(i - 1) + x])]

\* peek_mdf returned from a stream that holds header, shape and labels whole.
Peeked ==
    /\ rcall.op = "peek_mdf" /\ rcall.ret.err = ""
    /\ Len(disk.words) >= 4 + Ndim
    /\ Len(disk.words) >= PayloadStart

\* C6: when peek_mdf returns, it has read the header words, the shape words
\* and one label array per axis and nothing else: the stream stands at the
\* first payload word, and the result holds the label arrays in shape order.
C6_PeekStopsAtPayload ==
    /\ (rcall.op = "peek_mdf" /\ rcall.ret.err = "")
        => /\ stream.reads = 2 + rcall.ret.c
           /\ Len(disk.words) >= 4 + Ndim => stream.pos <= PayloadStart
    /\ Peeked
        => /\ stream.pos = PayloadStart
           /\ rcall.ret.c = Ndim
           /\ rcall.ret.index = LabelsAt(1)
           /\ rcall.ret.columns = (IF Ndim = 2 THEN LabelsAt(2) ELSE <<>>)
C6_Witness ==
    /\ Peeked /\ Ndim = 2 /\ ShapeAt(1) = 1 /\ ShapeAt(2) = 2
    /\ Len(disk.words) > PayloadStart
    /\ ~rcall.byPath
    /\ stream.pos = PayloadStart
    /\ rcall.ret.index = <<-1>> /\ rcall.ret.columns = <<1, 0>>

\* read_fortran_square read a stream of W words.
ReadSquare == rcall.op = "read_fortran_square" /\ disk.exists
Oblong(w) == \E n \in 0..w : w = n * (n + 1)

\* C11: on a stream of W words read_fortran_square fails with NotSquare
\* exactly when W is n*(n+1) for no integer n (so for W = n*(n+1)+1, n >= 1),
\* and the size n of the matrix it returns always satisfies W = n*(n+1).
C11_FortranSizeInference ==
    ReadSquare =>
        /\ rcall.ret.err = "NotSquare" <=> ~Oblong(Len(disk.words))
        /\ (rcall.ret.err = "" /\ rcall.zones = ZonesNone /\ ~rcall.tall)
            => /\ rcall.ret.r = rcall.ret.c
               /\ Len(disk.words) = rcall.ret.r * (rcall.ret.r + 1)
C11_Witness ==
    /\ ReadSquare /\ Len(disk.words) = MaxRows * (MaxRows + 1)
    /\ rcall.zones = ZonesNone /\ ~rcall.tall
    /\ rcall.ret.err = "" /\ rcall.ret.r = MaxRows

\* The rows of the stream read_fortran_rectangle read: their number, the tag
\* of physical row i and its first m data words; row j of the frame returned.
RectRows == Len(disk.words) \div (rcall.n_columns + 1)
RectTag(i) == AsI32(disk.words[(i - 1) * (rcall.n_columns + 1) + 1])
RectRow(i, m) == [x \in 1..m |-> disk.words[(i - 1) * (rcall.n_columns + 1) + 1 + x]]
RetRow(j, m) == [x \in 1..m |-> rcall.ret.d[(j - 1) * m + x]]

\* read_fortran_rectangle read, with m labels and tall=False, a stream of
\* whole rows of at least m data words whose tags are distinct and in 1..m.
ReadRectangleLabels ==
    /\ rcall.op = "read_fortran_rectangle" /\ disk.exists
    /\ rcall.zones.kind = "labels" /\ ~rcall.tall
    /\ Len(disk.words) = RectRows * (rcall.n_columns + 1)
    /\ rcall.n_columns >= Len(rcall.zones.labels)
    /\ \A i \in 1..RectRows : RectTag(i) \in 1..Len(rcall.zones.labels)
    /\ \A i, j \in 1..RectRows : RectTag(i) = RectTag(j) => i = j

\* C12: read_fortran_rectangle with labels zones returns every physical row
\* tagged t under the row label zones[t-1], wherever the row stands in the
\* file: the frame has a row labelled zones[t-1] holding the data of that row.
C12_RectangleRowsFollowTags ==
    ReadRectangleLabels =>
        LET L == rcall.zones.labels
        IN  /\ rcall.ret.err = "" /\ rcall.ret.kind = "DataFrame"
            /\ rcall.ret.columns = L
            /\ \A i \in 1..RectRows :
                  \E j \in 1..Len(rcall.ret.index) :
                      /\ rcall.ret.index[j] = L[RectTag(i)]
                      /\ RetRow(j, Len(L)) = RectRow(i, Len(L))
                      /\ \A jj \in 1..Len(rcall.ret.index) :
                            rcall.ret.index[jj] = L[RectTag(i)] => jj = j
C12_Witness ==
    /\ ReadRectangleLabels /\ ~rcall.reindex_rows
    /\ RectRows = 3 /\ rcall.n_columns = 3
    /\ <<RectTag(1), RectTag(2), RectTag(3)>> = <<3, 1, 2>>
    /\ rcall.zones.labels = Descending(3)
    /\ rcall.ret.index = <<1, 3, 2>>

\* C13: with labels zones and reindex_rows=True the frame has exactly the
\* labels of zones as its rows, in the order of zones, the row of a label
\* with no physical row holding fill_value in every cell; with
\* reindex_rows=False its rows are the physical rows, in file order, each
\* under its label, and no other.
C13_RectangleReindexRows ==
    ReadRectangleLabels =>
        LET L == rcall.zones.labels
            present(l) == \E i \in 1..RectRows : L[RectTag(i)] = l
        IN  /\ rcall.ret.err = "" /\ rcall.ret.kind = "DataFrame"
            /\ Len(rcall.ret.d) = Len(rcall.ret.index) * Len(L)
            /\ rcall.reindex_rows =>
                  /\ rcall.ret.index = L
                  /\ \A j \in 1..Len(L) :
                        ~present(L[j]) =>
                            \A x \in 1..Len(L) : RetRow(j, Len(L))[x] = rcall.fill_value
            /\ ~rcall.reindex_rows =>
                  rcall.ret.index = [i \in 1..RectRows |-> L[RectTag(i)]]
C13_Witness ==
    /\ ReadRectangleLabels /\ rcall.reindex_rows
    /\ RectRows = 2 /\ rcall.n_columns = 3
    /\ <<RectTag(1), RectTag(2)>> = <<3, 1>>
    /\ rcall.zones.labels = Descending(3)
    /\ rcall.fill_value = NaN32
    /\ rcall.ret.index = Descending(3)
    /\ RetRow(2, 3) = <<NaN32, NaN32, NaN32>>

\* to_fortran was called with a matrix coerce_matrix accepts (r rows, n
\* columns) and min_index >= 1.
WroteFortran ==
    /\ wcall.op = "to_fortran" /\ wcall.min_index >= 1
    /\ coerce_matrix(wcall.matrix, TRUE, wcall.force_square).err = ""
\* The words a row of the file takes, and the tag word of row i.
FortranWidth ==
    1 + (IF wcall.n_columns.given THEN Max(wcall.n_columns.n, wcall.matrix.c)
         ELSE wcall.matrix.c)
FortranTag(i) == disk.words[(i - 1) * FortranWidth + 1]

\* C14: to_fortran with min_index = m >= 1 on a matrix of r rows succeeds and
\* writes r rows tagged m, m+1, ..., m+r-1; with min_index < 1 it fails with
\* InvalidDimension.
C14_FortranRowTags ==
    /\ (wcall.op = "to_fortran" /\ wcall.min_index < 1)
        => wcall.ret.err = "InvalidDimension"
    /\ WroteFortran
        => /\ wcall.ret.err = ""
           /\ disk.exists /\ Len(disk.words) = wcall.matrix.r * FortranWidth
           /\ \A i \in 1..wcall.matrix.r : FortranTag(i) = I32(wcall.min_index + i - 1)

\* C15: to_fortran (min_index=1) with n_columns = c on a matrix of r rows and
\* n columns writes each row as 1 + max(c, n) words, the tag, the n values of
\* the row and c - n zeros; with n_columns None or c <= n each row is the tag
\* and the n values.
C15_FortranWidthPadding ==
    (WroteFortran /\ wcall.min_index = 1) =>
        LET n == wcall.matrix.c
        IN  /\ wcall.ret.err = ""
            /\ FortranWidth = 1 + (IF wcall.n_columns.given /\ wcall.n_columns.n > n
                                   THEN wcall.n_columns.n ELSE n)
            /\ disk.exists /\ Len(disk.words) = wcall.matrix.r * FortranWidth
            /\ \A i \in 1..wcall.matrix.r :
                  /\ FortranTag(i) = I32(i)
                  /\ \A j \in 1..(FortranWidth - 1) :
                        disk.words[(i - 1) * FortranWidth + 1 + j] =
                            IF j <= n THEN AsFloat32(wcall.matrix.d[(i - 1) * n + j])
                            ELSE Zero32
C15_Witness ==
    /\ WroteFortran /\ wcall.min_index = 1
    /\ wcall.matrix.r = MaxN /\ wcall.matrix.c = MaxN
    /\ wcall.n_columns = Cols(MaxN + 1)
    /\ wcall.matrix.d[MaxN * MaxN] # ZeroVal
    /\ rcall.op = "none"
    /\ Len(disk.words) = MaxN * (MaxN + 2)

\* read_omx read a container; the names it was asked for; the matrices of
\* its result.
ReadOmxCall == rcall.op = "read_omx"
Requested ==
    IF rcall.matrices.given THEN rcall.matrices.names ELSE NamesOf(disk.matrices)
RequestedExist == \A i \in 1..Len(Requested) : Has(disk.matrices, Requested[i])
ResultValues ==
    IF rcall.ret.kind = "dict"
    THEN {rcall.ret.entries[i][2] : i \in 1..Len(rcall.ret.entries)}
    ELSE {rcall.ret}
\* The axis labels of every matrix of the result are the keys, in their order.
LabelledBy(keys) ==
    \A v \in ResultValues :
        IF rcall.tall
        THEN v.kind = "Series" /\ v.index = Stack(keys, keys, v.d).index
        ELSE v.kind = "DataFrame" /\ v.index = keys /\ v.columns = keys
NamedMappingRead ==
    /\ ReadOmxCall /\ Len(disk.mappings) >= 2 /\ ~rcall.raw
    /\ rcall.mapping.given /\ Has(disk.mappings, rcall.mapping.name)
    /\ RequestedExist

\* C16 as stated: on a container with two or more mappings read_omx fails
\* with AmbiguousMapping whenever no mapping name is given, raw reads
\* included.
C16_OmxAmbiguousAlways ==
    (ReadOmxCall /\ Len(disk.mappings) >= 2 /\ ~rcall.mapping.given)
        => rcall.ret.err = "AmbiguousMapping"

\* C16 amended: on a container with two or more mappings a labelled read
\* (raw=False) with no mapping name fails with AmbiguousMapping, a raw read
\* with no mapping name does not; a labelled read naming one of the mappings
\* succeeds and labels every matrix with that mapping's keys in their order.
C16_OmxAmbiguousMapping ==
    /\ (ReadOmxCall /\ Len(disk.mappings) >= 2 /\ ~rcall.mapping.given)
        => IF rcall.raw THEN rcall.ret.err # "AmbiguousMapping"
           ELSE rcall.ret.err = "AmbiguousMapping"
    /\ NamedMappingRead
        => /\ rcall.ret.err = ""
           /\ LabelledBy(Lookup(disk.mappings, rcall.mapping.name).keys)
C16_Witness ==
    /\ NamedMappingRead /\ NamesOf(disk.mappings) = <<1, 2>> /\ disk.n = 2
    /\ rcall.mapping = Mapping(2) /\ ~rcall.tall
    /\ rcall.ret.kind = "DataFrame" /\ rcall.ret.index = <<11, 12>>

Count(names, name) == Cardinality({i \in 1..Len(names) : names[i] = name})

\* C17: read_omx reads the matrices in ascending order of their names,
\* however the caller lists them or the container stores them: the names read
\* never descend, and a read that succeeds has read each requested name as
\* often as it was requested (once, if the request has no repeats), so the
\* sequence of reads depends on the set of names alone.
C17_OmxReadOrder ==
    ReadOmxCall =>
        /\ \A i, j \in 1..Len(rcall.reads) : i < j => rcall.reads[i] <= rcall.reads[j]
        /\ rcall.ret.err = ""
            => \A name \in 1..MaxNames :
                  Count(rcall.reads, name) = Count(Requested, name)
C17_Witness ==
    /\ ReadOmxCall /\ NamesOf(disk.matrices) = <<2, 3, 1>>
    /\ rcall.matrices = Names(<<3, 1>>)
    /\ rcall.ret.err = "" /\ rcall.reads = <<1, 3>>

DistinctRequested == {Requested[i] : i \in 1..Len(Requested)}

WroteOmx == wcall.op = "to_omx"
\* The representation kind of an entry: a raw array (1D or 2D), a tall Series
\* or a wide DataFrame.
KindOf(m) ==
    IF m.kind \in {"RAW", "RAW1"} THEN "raw" ELSE IF m.kind = "SERIES" THEN "tall" ELSE "wide"
MixedKinds ==
    \E i, j \in 1..Len(wcall.items) : KindOf(wcall.items[i].m) # KindOf(wcall.items[j].m)

\* C19: to_omx on a dict whose entries are not all of one kind (raw arrays,
\* tall Series, wide DataFrames) fails with InconsistentMatrixKinds, wherever
\* the deviating entry stands in the dict.
C19_OmxMixedKinds ==
    WroteOmx /\ MixedKinds => wcall.ret.err = "InconsistentMatrixKinds"
\* Two frames, then an array: the deviating entry is the last one.
C19_Witness ==
    /\ WroteOmx /\ Len(wcall.items) = 3
    /\ KindOf(wcall.items[1].m) = "wide" /\ KindOf(wcall.items[2].m) = "wide"
    /\ KindOf(wcall.items[3].m) = "raw"
    /\ wcall.ret.err = "InconsistentMatrixKinds"

\* An entry that by itself is a square matrix with one label sequence for
\* both axes, and that sequence: 0..n-1 for an array, the index of a frame,
\* the sorted labels of a Series.
Resolves(m) ==
    IF m.kind = "RAW" THEN m.r = m.c
    ELSE IF m.kind = "RAW1" THEN Isqrt(m.r) * Isqrt(m.r) = m.r
    ELSE IF m.kind = "FRAME" THEN m.index = m.columns
    ELSE ~HasDuplicates(m.index) /\ Level(m.index, 1) = Level(m.index, 2)
Resolved(m) ==
    IF m.kind = "RAW" THEN [x \in 1..m.r |-> x - 1]
    ELSE IF m.kind = "RAW1" THEN [x \in 1..Isqrt(m.r) |-> x - 1]
    ELSE IF m.kind = "FRAME" THEN m.index
    ELSE Level(m.index, 1)
AllResolve == \A i \in 1..Len(wcall.items) : Resolves(wcall.items[i].m)
ResolveAlike ==
    \A i, j \in 1..Len(wcall.items) : Resolved(wcall.items[i].m) = Resolved(wcall.items[j].m)

\* C20: to_omx on a dict of one kind whose matrices resolve to different
\* label sequences (other labels, other order, other size) fails with
\* LabelMismatch; it writes the container only when all matrices resolve to
\* one sequence, which becomes the keys of the mapping.
C20_OmxLabelAgreement ==
    WroteOmx =>
        /\ ~MixedKinds /\ AllResolve /\ ~ResolveAlike => wcall.ret.err = "LabelMismatch"
        /\ wcall.ret.err = "" =>
               /\ AllResolve /\ ResolveAlike
               /\ disk.mappings[1].keys = Resolved(wcall.items[1].m)
\* Two frames with the same labels in opposite orders.
C20_Witness ==
    /\ WroteOmx /\ Len(wcall.items) = 2
    /\ wcall.items[1].m.kind = "FRAME" /\ wcall.items[2].m.kind = "FRAME"
    /\ wcall.items[1].m.index = Ascending(2) /\ wcall.items[1].m.columns = Ascending(2)
    /\ wcall.items[2].m.index = Descending(2) /\ wcall.items[2].m.columns = Descending(2)
    /\ wcall.ret.err = "LabelMismatch"

\* The dict is accepted when no target labels are given.
Accepted == prep_matrix_dict(wcall.items, IndexNone).err = ""
TargetGiven == WroteOmx /\ wcall.zone_index.given /\ Accepted

C22_OmxZoneIndexOverride ==
    /\ WroteOmx /\ wcall.zone_index.given /\ wcall.items # <<>>
    /\ \A i \in 1..Len(wcall.items) :
           /\ wcall.items[i].m.kind = "RAW"
           /\ wcall.items[i].m.r = Len(wcall.zone_index.labels)
           /\ wcall.items[i].m.c = Len(wcall.zone_index.labels)
    => wcall.ret.err = "" /\ disk.mappings[1].keys = wcall.zone_index.labels

\* A metadata argument that names every matrix of the dict, or is None.
Complete(meta) ==
    meta.given => \A i \in 1..Len(wcall.items) : wcall.items[i].name \in meta.names
\* The matrices and target labels are accepted, the library does not fail.
MetaCall ==
    /\ WroteOmx /\ prep_matrix_dict(wcall.items, wcall.zone_index).err = ""
    /\ wcall.fail_at = 0

\* C23 as claimed: a matrix without a description or attribute dict, the
\* argument omitted or lacking its name, is written with the defaults and the
\* call does not fail.
C23_OmxMetadataAnyDict ==
    MetaCall => wcall.ret.err = "" /\ Len(disk.matrices) = Len(wcall.items)
\* C23: with descriptions (attrs) omitted every matrix is written with an
\* empty description (no attributes), with a dict naming every matrix each is
\* written with its entry, and the call succeeds; a dict that lacks the name
\* of a matrix makes the call fail with KeyError.
C23_OmxMetadataDefaults ==
    MetaCall =>
        IF Complete(wcall.descriptions) /\ Complete(wcall.attrs)
        THEN /\ wcall.ret.err = "" /\ Len(disk.matrices) = Len(wcall.items)
             /\ \A i \in 1..Len(wcall.items) :
                    /\ disk.matrices[i].name = wcall.items[i].name
                    /\ disk.matrices[i].title =
                           IF wcall.descriptions.given THEN wcall.items[i].name ELSE EmptyText
                    /\ disk.matrices[i].attrs =
                           IF wcall.attrs.given THEN wcall.items[i].name ELSE NoAttrs
        ELSE wcall.ret.err = "KeyError"
\* Descriptions omitted, attributes given for every matrix.
C23_Witness ==
    /\ MetaCall /\ Len(wcall.items) = 2
    /\ ~wcall.descriptions.given /\ wcall.attrs = Meta({1, 2})
    /\ wcall.ret.err = "" /\ disk.matrices[2].title = EmptyText /\ disk.matrices[2].attrs = 2

Called == wcall.op # "none" \/ rcall.op # "none"
\* C24: after every codec call on a file, whether it returned or failed, a
\* stream the codec opened from a path has been closed by it, and a stream the
\* caller passed in has been neither opened nor closed by the codec.
C24_StreamOwnership ==
    Called =>
        /\ stream.byPath => (stream.opened => stream.closed)
        /\ ~stream.byPath => ~stream.opened /\ ~stream.closed
\* A read from a path that failed after the file was opened.
C24_Witness ==
    /\ rcall.op = "read_fortran_square" /\ rcall.ret.err # ""
    /\ stream.byPath /\ stream.opened /\ stream.closed

\* read_mdf was called on a stream with a valid header, a full shape and full
\* label arrays, whose payload ends before prod(shape) elements.
MdfPayloadShort ==
    /\ rcall.op = "read_mdf"
    /\ LET h == mdf_head(disk.words)
       IN  /\ h.err = "" /\ Len(h.shape) = h.ndim
           /\ Len(h.index) = h.shape[1]
           /\ h.ndim = 2 => Len(h.columns) = h.shape[2]
           /\ ItemsAt(disk.words, h.pos, IF h.dtype = 2 THEN 2 ELSE 1, Prod(h.shape))
                  < Prod(h.shape)
\* C25: read_mdf on a file with a valid header whose payload holds fewer than
\* prod(shape) elements fails in every return mode; it never returns a result.
C25_MdfLengthMismatch ==
    MdfPayloadShort => rcall.ret.err # ""

\* The library failed on the k-th matrix of an accepted dict with complete
\* metadata.
FailedAt(k) ==
    /\ WroteOmx /\ prep_matrix_dict(wcall.items, wcall.zone_index).err = ""
    /\ Complete(wcall.descriptions) /\ Complete(wcall.attrs)
    /\ wcall.fail_at = k /\ k \in 1..Len(wcall.items)

\* C26: to_omx creates the mapping, then the matrices one at a time in the
\* order of the dict; when creating the k-th matrix fails the call fails, the
\* container has been closed and holds the mapping and the k-1 matrices
\* created before; a container written by to_omx never holds a matrix without
\* the mapping.
C26_OmxStepwiseWrite ==
    /\ \A k \in 1..MaxNames :
           FailedAt(k) =>
               /\ wcall.ret.err # "" /\ stream.opened /\ stream.closed
               /\ disk.mappings = <<[name |-> wcall.mapping, keys |-> Resolved(wcall.items[1].m)]>>
               /\ Len(disk.matrices) = k - 1
               /\ \A i \in 1..(k - 1) : disk.matrices[i].name = wcall.items[i].name
    /\ WroteOmx /\ stream.opened => Len(disk.mappings) = 1
\* The library fails on the second of MaxNames matrices: one matrix is left.
C26_Witness ==
    /\ FailedAt(2) /\ Len(wcall.items) = MaxNames
    /\ wcall.ret.err = "LibraryError" /\ Len(disk.matrices) = 1

\* The failures by which a write call rejects its input matrix.
RejectedInput == {"NotSquare", "ShapeMismatch", "RawNotAllowed", "TypeError"}
\* C27: a write call by path (to_mdf, to_emx, to_fortran) that rejects its
\* input matrix fails before the target file is opened: the file at the
\* target path keeps its previous contents.
C27_EagerRejection ==
    [][(/\ wcall.op = "none" /\ wcall'.op \in {"to_mdf", "to_emx", "to_fortran"}
        /\ wcall'.byPath /\ wcall'.ret.err \in RejectedInput) =>
          ~stream'.opened /\ disk' = disk]_vars

\* to_mdf returned; the shape words of the file it wrote.
WroteMdf == wcall.op = "to_mdf" /\ wcall.ret.err = ""
MdfRows == AsI32(disk.words[5])
MdfCols == AsI32(disk.words[6])
\* The row and column labels of the input, and its cell for a pair of labels.
InputLabels(m, k) ==
    IF m.kind = "SERIES" THEN LevelSet(m.index, k)
    ELSE IF k = 1 THEN {m.index[i] : i \in 1..Len(m.index)}
    ELSE {m.columns[i] : i \in 1..Len(m.columns)}
HasCell(m, o, d) ==
    IF m.kind = "SERIES" THEN \E i \in 1..Len(m.index) : m.index[i] = <<o, d>>
    ELSE o \in InputLabels(m, 1) /\ d \in InputLabels(m, 2)
InputCell(m, o, d) ==
    IF m.kind = "SERIES" THEN m.d[CHOOSE i \in 1..Len(m.index) : m.index[i] = <<o, d>>]
    ELSE m.d[((CHOOSE i \in 1..Len(m.index) : m.index[i] = o) - 1) * m.c
             + (CHOOSE j \in 1..Len(m.columns) : m.columns[j] = d)]
\* The file holds shape[0] row labels, shape[1] column labels and shape[0] x
\* shape[1] cells; there are as many row (column) labels as the input has;
\* the cell in row i and column j is the input's cell for the i-th row label
\* and the j-th column label written.
MdfSelfConsistent(m) ==
    /\ Len(disk.words) = 6 + MdfRows + MdfCols + MdfRows * MdfCols
    /\ MdfRows = Cardinality(InputLabels(m, 1))
    /\ MdfCols = Cardinality(InputLabels(m, 2))
    /\ \A i \in 1..MdfRows, j \in 1..MdfCols :
           LET o == AsI32(disk.words[6 + i])
               d == AsI32(disk.words[6 + MdfRows + j])
           IN  HasCell(m, o, d) =>
                   disk.words[6 + MdfRows + MdfCols + (i - 1) * MdfCols + j]
                       = AsFloat32(InputCell(m, o, d))

\* C28: a file written by to_mdf, from wide or from tall input, holds as many
\* row (column) labels as shape[0] (shape[1]), each the label of its row
\* (column) of the payload.
C28_MdfSelfConsistent ==
    WroteMdf => MdfSelfConsistent(wcall.matrix)

\* C29: whatever add_node, add_nodes and remove_node calls were made on the
\* tree and on its nodes, a cached node index is the sorted sequence of the
\* names registered now, and so is what a read of node_index returns.
C29_TreeIndexCoherent ==
    /\ tree.cached.valid => tree.cached.idx = SortedLabels(Registered(tree))
    /\ tree.op = "node_index" => tree.ret.idx = SortedLabels(Registered(tree))
\* node_index read, nodes added and removed, node_index read again: the
\* second read returns another index than the first.
C29_Witness ==
    /\ tree.op = "node_index" /\ tree.renewed /\ Len(tree.nodes) = MaxNodes

\* The nodes reachable from the tree through children links.
RECURSIVE Reachable(_, _)
Reachable(S, k) ==
    IF k = 0 THEN S
    ELSE Reachable(S \cup UNION {tree.nodes[i].children : i \in S}, k - 1)
FromRoot == Reachable(tree.children, MaxNodes)
\* C30: after any add_node and remove_node calls every registered node is
\* reachable from the tree through children links and its parent is the tree
\* or a node still registered under its name; flatten succeeds, and gives
\* each node below the top the position of its parent.
C30_TreeConsistent ==
    /\ \A n \in Registered(tree) :
           LET i == tree.all_nodes[n]
               p == tree.nodes[i].parent
           IN  /\ i \in FromRoot
               /\ p = 0 \/ tree.all_nodes[tree.nodes[p].name] = p
    /\ tree.op = "flatten" =>
           /\ tree.ret.err = ""
           /\ \A n \in Registered(tree) :
                  LET p == tree.nodes[tree.all_nodes[n]].parent
                      idx == SortedLabels(Registered(tree))
                  IN  tree.ret.hierarchy[PositionOf(idx, n) + 1]
                          = IF p = 0 THEN -1 ELSE PositionOf(idx, tree.nodes[p].name)

=============================================================================
